---------------------------- MODULE Spec2Model ----------------------------
(***************************************************************************)
(* TrafficGuru: a four-way intersection scheduled like an operating        *)
(* system.  The model follows src/src/main.c (system life cycle and the    *)
(* scheduler core), src/src/lane_process.c (lane queue operations),        *)
(* src/src/sjf_scheduler.c (the SJF policy family) and                     *)
(* src/src/visualization.c (the key handler).                              *)
(*                                                                         *)
(* Three threads run the started simulation: the simulation thread         *)
(* ("sim", simulation_main_loop), the vehicle generator ("gen",            *)
(* vehicle_generator_loop) and the main thread ("ui", the loop of main()   *)
(* with handle_user_input).  Every step of a thread is one action; a step  *)
(* ends at a lock acquisition, a lock release or a sleep.                  *)
(***************************************************************************)
EXTENDS Integers, Sequences, FiniteSets, TLC

\* ---------------------------------------------------------------- constants
NUM_LANES == 4
VEHICLE_CROSS_TIME == 3
INT_MAX == 2147483647
\* the values of the options that are not given
SIMULATION_DURATION == 300
VEHICLE_ARRIVAL_RATE_MIN == 3
VEHICLE_ARRIVAL_RATE_MAX == 8
DEFAULT_TIME_QUANTUM == 3
\* quadrants of the intersection
\* vehicles that may leave a lane in one batch
BATCH_EXIT_SIZE == 3
TOTAL_QUADRANTS == 4

\* ------------------------------------------------------------------- bounds
\* max_capacity handed to init_lane_process (MAX_QUEUE_CAPACITY in the
\* source), scaled down so that a full queue is reached.
MaxCapacity == 2
\* vehicles the generator creates before the model stops generating
MaxVehicles == 3
MaxArrivalLane == 1
\* keys the user presses during a run
MaxKeys == 1
\* largest queue_length / last_arrival_time / waiting_time of a policy input
MaxPolicyQueue == 2
MaxPolicyTime == 1
\* calls made by the lane-operation driver
MaxLaneCalls == 5
\* history_size of init_scheduler (1000 in the source), scaled down so that
\* the execution history wraps around
MaxHistory == 3
\* calls of record_execution made by the execution-history driver
MaxHistoryCalls == 5
\* calls made by the pause/resume driver
MaxPauseCalls == 6
\* changes the other threads make in the dashboard driver
MaxDisplaySteps == 4
\* calls made by the quadrant-allocator driver
MaxAllocatorCalls == 4
\* quadrants a lane holds and asks for in the states given to the detector,
\* and sweeps of the detector
MaxHeld == 2
MaxNeed == 3
MaxDetectorRuns == 2
\* cycles and arrivals of the aging-SJF driver
MaxAgingCycles == 5
MaxAgingArrivals == 6
\* arrivals of the SJF service driver
MaxServiceArrivals == 4
MaxLoopCapacity == 4
MaxLoopIterations == 3
MaxHelpKeys == 5

Lanes == 0 .. (NUM_LANES - 1)
\* the lanes rand() % NUM_LANES is let to choose
ArrivalLanes == { i \in Lanes : i <= MaxArrivalLane }

WAITING == "WAITING"
READY == "READY"
RUNNING == "RUNNING"
BLOCKED == "BLOCKED"
LaneStates == {WAITING, READY, RUNNING, BLOCKED}

SJF == "SJF"
MULTILEVEL_FEEDBACK == "MULTILEVEL_FEEDBACK"
PRIORITY_ROUND_ROBIN == "PRIORITY_ROUND_ROBIN"
Algorithms == {SJF, MULTILEVEL_FEEDBACK, PRIORITY_ROUND_ROBIN}

Threads == {"sim", "gen", "ui"}
FREE == "free"

VARIABLES
    lanes,                   \* g_traffic_system->lanes[4]
    queue_lock,              \* lanes[i].queue_lock: FREE or the holding thread
    scheduler,               \* g_traffic_system->scheduler
    scheduler_lock,          \* scheduler.scheduler_lock
    global_state_lock,       \* g_traffic_system->global_state_lock
    metrics,                 \* g_traffic_system->metrics
    simulation_running,      \* g_traffic_system->simulation_running
    simulation_paused,       \* g_traffic_system->simulation_paused
    keep_running,            \* volatile bool keep_running
    total_vehicles_generated,\* g_traffic_system->total_vehicles_generated
    now,                     \* time(NULL)
    pc,                      \* position of each thread
    sim,                     \* locals of the simulation thread
    gen,                     \* locals of the generator thread
    ui,                      \* locals of the main thread
    threads,                 \* simulation_thread / vehicle_generator_thread handles
    destroyed,               \* g_traffic_system has been freed
    emergency,               \* the emergency vehicle added last, for one cycle
    violation_recorded,      \* an InvariantViolation has been recorded
    call                     \* the call under test of the function-level drivers

vars == << lanes, queue_lock, scheduler, scheduler_lock, global_state_lock,
           metrics, simulation_running, simulation_paused, keep_running,
           total_vehicles_generated, now, pc, sim, gen, ui, threads,
           destroyed, emergency, violation_recorded, call >>

\* ------------------------------------------------------------ queue.c (FIFO)
\* bounded FIFO of vehicle ids
create_queue(capacity) == << >>

enqueue(q, capacity, id) == IF Len(q) < capacity THEN Append(q, id) ELSE q

enqueue_ok(q, capacity) == Len(q) < capacity

dequeue(q) == IF Len(q) = 0 THEN q ELSE Tail(q)

dequeue_value(q) == IF Len(q) = 0 THEN -1 ELSE Head(q)

get_size(q) == Len(q)

\* ----------------------------------------------------------- lane_process.c
init_lane_process(lane_id, max_capacity, t) ==
    [ lane_id |-> lane_id,
      queue |-> create_queue(max_capacity),
      queue_length |-> 0,
      max_queue_length |-> max_capacity,
      state |-> WAITING,
      waiting_time |-> 0,
      last_arrival_time |-> t,
      total_vehicles_served |-> 0,
      total_waiting_time |-> 0,
      requested_quadrants |-> 0,
      allocated_quadrants |-> 0 ]

\* variant: the arrival time is stamped whether or not the vehicle fits
add_vehicle_to_lane_stamping(lane, vehicle_id, t) ==
    IF enqueue_ok(lane.queue, lane.max_queue_length)
    THEN [ lane EXCEPT !.queue = enqueue(lane.queue, lane.max_queue_length, vehicle_id),
                       !.queue_length = get_size(enqueue(lane.queue, lane.max_queue_length, vehicle_id)),
                       !.last_arrival_time = t ]
    ELSE [ lane EXCEPT !.last_arrival_time = t ]

\* the lane after add_vehicle_to_lane(lane, vehicle_id) at time t
add_vehicle_to_lane(lane, vehicle_id, t) ==
    IF enqueue_ok(lane.queue, lane.max_queue_length)
    THEN [ lane EXCEPT !.queue = enqueue(lane.queue, lane.max_queue_length, vehicle_id),
                       !.queue_length = get_size(enqueue(lane.queue, lane.max_queue_length, vehicle_id)),
                       !.last_arrival_time = t ]
    ELSE lane

\* variant: the vehicle leaves the queue but the cached length is not refreshed
remove_vehicle_from_lane_stale(lane) ==
    [ lane EXCEPT !.queue = dequeue(lane.queue) ]

\* the lane after remove_vehicle_from_lane / remove_vehicle_from_lane_unlocked
remove_vehicle_from_lane(lane) ==
    [ lane EXCEPT !.queue = dequeue(lane.queue),
                  !.queue_length = get_size(dequeue(lane.queue)) ]

\* the value remove_vehicle_from_lane returns
removed_vehicle(lane) == dequeue_value(lane.queue)

\* the lane after request_intersection_quadrants(lane, quadrants)
request_intersection_quadrants(lane, quadrants) ==
    [ lane EXCEPT !.requested_quadrants = quadrants ]

\* the lane after release_intersection_quadrants(lane)
release_intersection_quadrants(lane) ==
    [ lane EXCEPT !.allocated_quadrants = 0, !.requested_quadrants = 0 ]


\* ---------------------------------------------------------- sjf_scheduler.c
\* what a policy reads of lane i under lanes[i].queue_lock
snapshot_of(lane) ==
    [ state |-> lane.state,
      queue_length |-> lane.queue_length,
      arrival_time |-> lane.last_arrival_time,
      waiting_time |-> lane.waiting_time,
      total_vehicles_served |-> lane.total_vehicles_served,
      total_waiting_time |-> lane.total_waiting_time ]

\* variant: the selection loop without the tie breaker
sjf_step_without_tie_breaker(snap, i, acc) ==
    IF snap[i].state = READY
       /\ snap[i].queue_length * VEHICLE_CROSS_TIME < acc.min_estimated_time
    THEN [ best_lane |-> i,
           min_estimated_time |-> snap[i].queue_length * VEHICLE_CROSS_TIME,
           earliest_arrival |-> snap[i].arrival_time ]
    ELSE acc

\* one iteration of the selection loop of schedule_next_lane_sjf
sjf_step(snap, i, acc) ==
    IF snap[i].state = READY
    THEN LET estimated_time == snap[i].queue_length * VEHICLE_CROSS_TIME
         IN  IF estimated_time < acc.min_estimated_time
             THEN [ best_lane |-> i,
                    min_estimated_time |-> estimated_time,
                    earliest_arrival |-> snap[i].arrival_time ]
             ELSE IF estimated_time = acc.min_estimated_time
                     /\ snap[i].arrival_time < acc.earliest_arrival
                  THEN [ acc EXCEPT !.best_lane = i,
                                    !.earliest_arrival = snap[i].arrival_time ]
                  ELSE acc
    ELSE acc

RECURSIVE sjf_scan(_, _, _)
sjf_scan(snap, i, acc) ==
    IF i = NUM_LANES THEN acc.best_lane
    ELSE sjf_scan(snap, i + 1, sjf_step(snap, i, acc))

\* variant: min_estimated_time starts at 0 instead of INT_MAX
schedule_next_lane_sjf_from_zero(snap, t) ==
    sjf_scan(snap, 0, [ best_lane |-> -1,
                        min_estimated_time |-> 0,
                        earliest_arrival |-> t ])

\* schedule_next_lane_sjf on the snapshot snap, called at time t
schedule_next_lane_sjf(snap, t) ==
    sjf_scan(snap, 0, [ best_lane |-> -1,
                        min_estimated_time |-> INT_MAX,
                        earliest_arrival |-> t ])

\* variant: the selection loop without the test of the lane state
srtf_step_any_state(snap, i, acc) ==
    IF snap[i].queue_length * VEHICLE_CROSS_TIME < acc.min_remaining_time
    THEN [ best_lane |-> i,
           min_remaining_time |-> snap[i].queue_length * VEHICLE_CROSS_TIME ]
    ELSE acc

\* one iteration of the selection loop of schedule_next_lane_srtf
srtf_step(snap, i, acc) ==
    IF snap[i].state = READY
    THEN LET remaining_time == snap[i].queue_length * VEHICLE_CROSS_TIME
         IN  IF remaining_time < acc.min_remaining_time
             THEN [ best_lane |-> i, min_remaining_time |-> remaining_time ]
             ELSE acc
    ELSE acc

RECURSIVE srtf_scan(_, _, _)
srtf_scan(snap, i, acc) ==
    IF i = NUM_LANES THEN acc.best_lane
    ELSE srtf_scan(snap, i + 1, srtf_step(snap, i, acc))

schedule_next_lane_srtf(snap) ==
    srtf_scan(snap, 0, [ best_lane |-> -1, min_remaining_time |-> INT_MAX ])

\* Float scores are kept as exact fractions num/den with den > 0; FLT_MAX
\* is the fraction above every score.
FLT_MAX_SCORE == [ num |-> INT_MAX, den |-> 1 ]

score_less(x, y) ==
    IF y = FLT_MAX_SCORE THEN x # FLT_MAX_SCORE
    ELSE IF x = FLT_MAX_SCORE THEN FALSE
    ELSE x.num * y.den < y.num * x.den

\* estimated_time - waiting_time * 0.1f
aging_score(s) ==
    [ num |-> 10 * s.queue_length * VEHICLE_CROSS_TIME - s.waiting_time,
      den |-> 10 ]

\* get_lane_average_wait_time as a fraction
average_wait(s) ==
    IF s.total_vehicles_served = 0
    THEN [ num |-> 0, den |-> 1 ]
    ELSE [ num |-> s.total_waiting_time, den |-> s.total_vehicles_served ]

\* processing_time - waiting_time * 0.2f + avg_wait * 0.1f
weighted_score(s) ==
    LET a == average_wait(s)
    IN  [ num |-> (10 * s.queue_length * VEHICLE_CROSS_TIME - 2 * s.waiting_time) * a.den
                  + a.num,
          den |-> 10 * a.den ]

\* queue_length * (throughput > 0 ? 60.0f / throughput : VEHICLE_CROSS_TIME)
predicted_time(s) ==
    IF s.total_vehicles_served > 0
    THEN [ num |-> 60 * s.queue_length, den |-> s.total_vehicles_served ]
    ELSE [ num |-> s.queue_length * VEHICLE_CROSS_TIME, den |-> 1 ]

\* the score the float policy p gives a lane
policy_score(p, s) ==
    CASE p = "aging" -> aging_score(s)
      [] p = "enhanced" -> weighted_score(s)
      [] p = "predictive" -> predicted_time(s)

\* one iteration of the selection loop shared by the three float policies
score_step(p, snap, i, acc) ==
    IF snap[i].state = READY /\ score_less(policy_score(p, snap[i]), acc.min_score)
    THEN [ best_lane |-> i, min_score |-> policy_score(p, snap[i]) ]
    ELSE acc

RECURSIVE score_scan(_, _, _, _)
score_scan(p, snap, i, acc) ==
    IF i = NUM_LANES THEN acc.best_lane
    ELSE score_scan(p, snap, i + 1, score_step(p, snap, i, acc))

schedule_next_lane_sjf_with_aging(snap) ==
    score_scan("aging", snap, 0, [ best_lane |-> -1, min_score |-> FLT_MAX_SCORE ])

schedule_next_lane_enhanced_sjf(snap) ==
    score_scan("enhanced", snap, 0, [ best_lane |-> -1, min_score |-> FLT_MAX_SCORE ])

schedule_next_lane_predictive_sjf(snap) ==
    score_scan("predictive", snap, 0, [ best_lane |-> -1, min_score |-> FLT_MAX_SCORE ])

\* The enhanced and the predictive policy call an accessor that locks
\* lanes[i].queue_lock while the policy already holds it.  The mutex is a
\* default (non-recursive) one, so the second lock is undefined: the call
\* either never returns or goes on.
enhanced_relocks(snap) == \E i \in Lanes : snap[i].total_vehicles_served # 0

predictive_relocks(snap) == TRUE

Policies == { "sjf", "srtf", "aging", "enhanced", "predictive" }

policy_result(p, snap, t) ==
    CASE p = "sjf" -> schedule_next_lane_sjf(snap, t)
      [] p = "srtf" -> schedule_next_lane_srtf(snap)
      [] p = "aging" -> schedule_next_lane_sjf_with_aging(snap)
      [] p = "enhanced" -> schedule_next_lane_enhanced_sjf(snap)
      [] p = "predictive" -> schedule_next_lane_predictive_sjf(snap)

policy_relocks(p, snap) ==
    CASE p = "enhanced" -> enhanced_relocks(snap)
      [] p = "predictive" -> predictive_relocks(snap)
      [] OTHER -> FALSE

\* ------------------------------------------------- scheduler core (main.c)
\* variant: context_switch leaves from_lane as it is
context_switch_from_skipped(lane) == lane

\* from_lane after the first half of context_switch
context_switch_from(lane) ==
    IF lane.state = RUNNING
    THEN [ lane EXCEPT !.state = IF lane.queue_length > 0 THEN READY ELSE WAITING ]
    ELSE lane

\* variant: context_switch leaves to_lane as it is
context_switch_to_skipped(lane) == lane

\* to_lane after the second half of context_switch
context_switch_to(lane) ==
    IF lane.state = READY
    THEN [ lane EXCEPT !.state = RUNNING, !.waiting_time = 0 ]
    ELSE lane

\* validate_single_lane_running: a lane whose queue_lock is busy is skipped
validate_single_lane_running(ls, locks) ==
    Cardinality({ i \in Lanes : locks[i] = FREE /\ ls[i].state = RUNNING }) <= 1

\* multilevel_scheduler.c / priority_rr_scheduler.c: some READY lane of the
\* snapshot, none when no lane is READY
ready_lanes(snap) == { i \in Lanes : snap[i].state = READY }

schedule_next_lane_other(snap) ==
    IF ready_lanes(snap) = {} THEN {-1} ELSE ready_lanes(snap)

\* the lanes the switch of schedule_next_lane can return
select_next_lane(algorithm, snap, t) ==
    IF algorithm = SJF
    THEN { schedule_next_lane_sjf(snap, t) }
    ELSE schedule_next_lane_other(snap)

\* the test that guards context_switch in schedule_next_lane
needs_context_switch(next_lane, current_lane) ==
    next_lane # current_lane /\ next_lane # -1

\* variant: the lane lock is taken before the metrics lock
time_slice_lane_lock_first == << "queue_lock", "global_state_lock" >>

\* the order in which execute_lane_time_slice takes its two locks
time_slice_lock_order == << "global_state_lock", "queue_lock" >>

\* an entry of execution_history that record_execution has not written yet
NoRecord == [ lane_id |-> -1, start_time |-> 0, end_time |-> 0, duration |-> 0,
              vehicles_processed |-> 0 ]

\* scheduler->history_size
history_size == MaxHistory

\* the ExecutionRecord record_execution writes
execution_record(lane_id, start_time, end_time, vehicles_processed) ==
    [ lane_id |-> lane_id, start_time |-> start_time, end_time |-> end_time,
      duration |-> end_time - start_time,
      vehicles_processed |-> vehicles_processed ]

\* history_index after record_execution has written a record
next_history_index(history_index) == (history_index + 1) % history_size

\* variant: the lane is parked whenever its queue is empty, RUNNING or not
time_slice_end_any_state(lane) ==
    IF lane.queue_length = 0
    THEN [ lane EXCEPT !.state = WAITING ]
    ELSE lane

\* the lane at the end of execute_lane_time_slice
time_slice_end(lane) ==
    IF lane.queue_length = 0 /\ lane.state = RUNNING
    THEN [ lane EXCEPT !.state = WAITING ]
    ELSE lane

\* variant: the wake-up makes the lane READY whatever state it is in
generator_wake_any_state(lane) ==
    [ lane EXCEPT !.state = READY, !.waiting_time = 0 ]

\* the lane after the wake-up of vehicle_generator_loop
generator_wake(lane) ==
    IF lane.state = WAITING
    THEN [ lane EXCEPT !.state = READY, !.waiting_time = 0 ]
    ELSE lane

\* variant: a RUNNING lane becomes READY whatever its queue
reset_running_lane_always_ready(lane) ==
    IF lane.state = RUNNING
    THEN [ lane EXCEPT !.state = READY ]
    ELSE lane

\* a lane in the reset loop of set_scheduling_algorithm
reset_running_lane(lane) ==
    IF lane.state = RUNNING
    THEN [ lane EXCEPT !.state = IF lane.queue_length > 0 THEN READY ELSE WAITING ]
    ELSE lane

\* ------------------------------------------------- state after construction
\* init_traffic_guru_system, then start_traffic_simulation
InitLanes == [ i \in Lanes |-> init_lane_process(i, MaxCapacity, 0) ]

InitScheduler(algorithm) ==
    [ algorithm |-> algorithm,
      current_lane |-> -1,
      total_context_switches |-> 0,
      history_index |-> 0,
      scheduler_running |-> TRUE ]

InitMetrics ==
    [ total_vehicles_processed |-> 0,
      lane_throughput |-> [ i \in Lanes |-> 0 ],
      context_switches |-> 0 ]

NoSnapshot == [ i \in Lanes |-> snapshot_of(init_lane_process(i, MaxCapacity, 0)) ]

InitSim == [ next_lane |-> -1, from_lane |-> -1, i |-> 0, snap |-> NoSnapshot,
             vehicle_id |-> -1, valid |-> TRUE, lane |-> -1,
             recorded |-> FALSE ]

InitGen == [ lane_idx |-> -1, new_vehicle_id |-> -1 ]

InitUi == [ keys |-> 0, i |-> 0, algorithm |-> "none" ]

NoEmergency == [ lane |-> -1, from |-> -1, cycle |-> 0 ]

IdleCall == [ fn |-> "none", status |-> "idle", result |-> -1, lane |-> -1,
              count |-> 0, before |-> init_lane_process(0, MaxCapacity, 0) ]

\* everything but lanes, scheduler, pc, now and call, once the program has started
InitRest ==
    /\ queue_lock = [ i \in Lanes |-> FREE ]
    /\ scheduler_lock = FREE
    /\ global_state_lock = FREE
    /\ metrics = InitMetrics
    /\ simulation_running = TRUE
    /\ simulation_paused = FALSE
    /\ keep_running = TRUE
    /\ total_vehicles_generated = 0
    /\ sim = InitSim
    /\ gen = InitGen
    /\ ui = InitUi
    /\ threads = [ simulation_thread |-> TRUE, vehicle_generator_thread |-> TRUE ]
    /\ destroyed = FALSE
    /\ emergency = NoEmergency
    /\ violation_recorded = FALSE

Init ==
    /\ lanes = InitLanes
    /\ scheduler = InitScheduler(SJF)
    /\ pc = [ sim |-> "s_loop", gen |-> "g_loop", ui |-> "m_loop" ]
    /\ now = 0
    /\ call = IdleCall
    /\ InitRest

\* ------------------------------------------------------------------ helpers
goto(t, label) == pc' = [ pc EXCEPT ![t] = label ]

held_lane_locks(t) == { i \in Lanes : queue_lock[i] = t }

\* the locks thread t holds
held_locks(t) ==
    (IF scheduler_lock = t THEN {"scheduler_lock"} ELSE {})
    \cup (IF global_state_lock = t THEN {"global_state_lock"} ELSE {})
    \cup { "queue_lock" : i \in held_lane_locks(t) }

\* the program runs until cleanup_and_exit has freed the system and exited
alive == ~destroyed

lock_is_free(name, i) ==
    IF name = "global_state_lock" THEN global_state_lock = FREE
    ELSE queue_lock[i] = FREE

\* variant: an unlock leaves the lock with its holder
set_lock_never_released(name, i, v) ==
    IF v = FREE
    THEN UNCHANGED << global_state_lock, queue_lock >>
    ELSE IF name = "global_state_lock"
    THEN global_state_lock' = v /\ UNCHANGED queue_lock
    ELSE queue_lock' = [ queue_lock EXCEPT ![i] = v ] /\ UNCHANGED global_state_lock

\* lock `name` (of lane i) changes hands: v is a thread or FREE
set_lock(name, i, v) ==
    IF name = "global_state_lock"
    THEN global_state_lock' = v /\ UNCHANGED queue_lock
    ELSE queue_lock' = [ queue_lock EXCEPT ![i] = v ] /\ UNCHANGED global_state_lock

flags == << simulation_running, simulation_paused, keep_running >>
others == << gen, ui, threads, destroyed, violation_recorded, call >>

\* The emergency vehicle the generator adds for lane x while another lane is
\* RUNNING and the simulation thread is about to call schedule_next_lane:
\* cycle 1 until that call begins, cycle 2 during the call, forgotten after.
add_emergency_vehicle(x) ==
    IF /\ emergency = NoEmergency
       /\ \E y \in Lanes \ {x} : lanes[y].state = RUNNING
       /\ pc.sim \in {"s_loop", "s_update", "s_schedule"}
    THEN [ lane |-> x,
           from |-> CHOOSE y \in Lanes \ {x} : lanes[y].state = RUNNING,
           cycle |-> 1 ]
    ELSE emergency

\* ---------------------------------------- simulation thread (main.c:472-530)
\* the while test and the pause test of simulation_main_loop
SimLoop ==
    /\ alive /\ pc.sim = "s_loop"
    /\ IF simulation_running /\ keep_running
       THEN IF simulation_paused THEN goto("sim", "s_loop")
            ELSE goto("sim", "s_update")
       ELSE goto("sim", "done")
    /\ UNCHANGED << lanes, queue_lock, scheduler, scheduler_lock, global_state_lock,
                    metrics, flags, total_vehicles_generated, now, sim, emergency, others >>

\* update_simulation_state: global_state_lock is taken, the time-based
\* metrics and the emergency progress are updated, the lock is released (the
\* deadlock detection of every 100th call lies beyond the bounds)
SimUpdate ==
    /\ alive /\ pc.sim = "s_update"
    /\ global_state_lock = FREE
    /\ goto("sim", "s_schedule")
    /\ UNCHANGED << lanes, queue_lock, scheduler, scheduler_lock, global_state_lock,
                    metrics, flags, total_vehicles_generated, now, sim, emergency, others >>

\* schedule_next_lane takes scheduler_lock
SimScheduleLock ==
    /\ alive /\ pc.sim = "s_schedule"
    /\ scheduler_lock = FREE
    /\ scheduler_lock' = "sim"
    /\ sim' = [ sim EXCEPT !.next_lane = -1, !.from_lane = -1, !.i = 0, !.valid = TRUE ]
    /\ emergency' = IF emergency.cycle = 1 THEN [ emergency EXCEPT !.cycle = 2 ]
                    ELSE emergency
    /\ goto("sim", "s_snapshot")
    /\ UNCHANGED << lanes, queue_lock, scheduler, global_state_lock,
                    metrics, flags, total_vehicles_generated, now, others >>

\* the policy reads lane sim.i under its queue_lock
SimSnapshot ==
    /\ alive /\ pc.sim = "s_snapshot"
    /\ sim.i < NUM_LANES - 1
    /\ queue_lock[sim.i] = FREE
    /\ sim' = [ sim EXCEPT !.snap[sim.i] = snapshot_of(lanes[sim.i]), !.i = sim.i + 1 ]
    /\ UNCHANGED << lanes, queue_lock, scheduler, scheduler_lock, global_state_lock,
                    metrics, flags, total_vehicles_generated, now, pc, emergency, others >>

\* the policy reads the last lane and returns next_lane; schedule_next_lane
\* decides on a context switch
SimSelect ==
    /\ alive /\ pc.sim = "s_snapshot"
    /\ sim.i = NUM_LANES - 1
    /\ queue_lock[sim.i] = FREE
    /\ LET snap == [ sim.snap EXCEPT ![sim.i] = snapshot_of(lanes[sim.i]) ]
       IN  \E n \in select_next_lane(scheduler.algorithm, snap, now) :
              /\ sim' = [ sim EXCEPT !.next_lane = n,
                                     !.from_lane = scheduler.current_lane,
                                     !.i = 0,
                                     !.snap = NoSnapshot ]
              /\ goto("sim", IF needs_context_switch(n, scheduler.current_lane)
                             THEN "s_switch_from" ELSE "s_schedule_unlock")
    /\ UNCHANGED << lanes, queue_lock, scheduler, scheduler_lock, global_state_lock,
                    metrics, flags, total_vehicles_generated, now, emergency, others >>

\* context_switch, from_lane
SimSwitchFrom ==
    /\ alive /\ pc.sim = "s_switch_from"
    /\ IF sim.from_lane >= 0
       THEN /\ queue_lock[sim.from_lane] = FREE
            /\ lanes' = [ lanes EXCEPT ![sim.from_lane] = context_switch_from(@) ]
       ELSE UNCHANGED lanes
    /\ goto("sim", "s_switch_to")
    /\ UNCHANGED << queue_lock, scheduler, scheduler_lock, global_state_lock,
                    metrics, flags, total_vehicles_generated, now, sim, emergency, others >>

\* context_switch, to_lane; the thread then sleeps for the switch overhead
SimSwitchTo ==
    /\ alive /\ pc.sim = "s_switch_to"
    /\ queue_lock[sim.next_lane] = FREE
    /\ lanes' = [ lanes EXCEPT ![sim.next_lane] = context_switch_to(@) ]
    /\ goto("sim", "s_switch_sleep")
    /\ UNCHANGED << queue_lock, scheduler, scheduler_lock, global_state_lock,
                    metrics, flags, total_vehicles_generated, now, sim, emergency, others >>

\* context_switch returns from its sleep: current_lane is set, the switch
\* is counted in the metrics if global_state_lock can be had at once, and
\* validate_single_lane_running is called; nothing is done with its result
SimSwitchDone ==
    /\ alive /\ pc.sim = "s_switch_sleep"
    /\ scheduler' = [ scheduler EXCEPT !.current_lane = sim.next_lane ]
    /\ metrics' = IF global_state_lock = FREE
                  THEN [ metrics EXCEPT !.context_switches = @ + 1 ]
                  ELSE metrics
    /\ sim' = [ sim EXCEPT !.valid = validate_single_lane_running(lanes, queue_lock) ]
    /\ goto("sim", "s_schedule_unlock")
    /\ UNCHANGED << lanes, queue_lock, scheduler_lock, global_state_lock,
                    flags, total_vehicles_generated, now, emergency, others >>

\* schedule_next_lane releases scheduler_lock and returns next_lane
SimScheduleUnlock ==
    /\ alive /\ pc.sim = "s_schedule_unlock"
    /\ scheduler_lock' = FREE
    /\ sim' = [ sim EXCEPT !.lane = sim.next_lane, !.valid = TRUE, !.from_lane = -1 ]
    /\ emergency' = IF emergency.cycle = 2 THEN NoEmergency ELSE emergency
    /\ goto("sim", IF sim.next_lane # -1 THEN "s_slice_lock1" ELSE "s_loop")
    /\ UNCHANGED << lanes, queue_lock, scheduler, global_state_lock,
                    metrics, flags, total_vehicles_generated, now, others >>

\* execute_lane_time_slice takes its first lock
SimSliceLock1 ==
    /\ alive /\ pc.sim \in {"s_slice_lock1", "s_slice_cross"}
    /\ lock_is_free(time_slice_lock_order[1], sim.lane)
    /\ set_lock(time_slice_lock_order[1], sim.lane, "sim")
    /\ goto("sim", IF pc.sim = "s_slice_lock1" THEN "s_slice_lock2" ELSE "s_slice_relock2")
    /\ UNCHANGED << lanes, scheduler, scheduler_lock,
                    metrics, flags, total_vehicles_generated, now, sim, emergency, others >>

\* execute_lane_time_slice takes its second lock; one vehicle leaves the
\* queue and is counted
SimSliceDequeue ==
    /\ alive /\ pc.sim = "s_slice_lock2"
    /\ lock_is_free(time_slice_lock_order[2], sim.lane)
    /\ set_lock(time_slice_lock_order[2], sim.lane, "sim")
    /\ LET vehicle_id == removed_vehicle(lanes[sim.lane])
       IN  /\ lanes' = [ lanes EXCEPT ![sim.lane] = remove_vehicle_from_lane(@) ]
           /\ sim' = [ sim EXCEPT !.vehicle_id = vehicle_id ]
           /\ metrics' = IF vehicle_id # -1
                         THEN [ metrics EXCEPT !.total_vehicles_processed = @ + 1,
                                               !.lane_throughput[sim.lane] = @ + 1 ]
                         ELSE metrics
           /\ goto("sim", IF vehicle_id # -1 THEN "s_slice_unlock2" ELSE "s_slice_record")
    /\ UNCHANGED << scheduler, scheduler_lock,
                    flags, total_vehicles_generated, now, emergency, others >>

\* the lock taken second is released first
SimSliceUnlock2 ==
    /\ alive /\ pc.sim \in {"s_slice_unlock2", "s_slice_end2"}
    /\ set_lock(time_slice_lock_order[2], sim.lane, FREE)
    /\ goto("sim", IF pc.sim = "s_slice_unlock2" THEN "s_slice_unlock1" ELSE "s_slice_end1")
    /\ UNCHANGED << lanes, scheduler, scheduler_lock,
                    metrics, flags, total_vehicles_generated, now, sim, emergency, others >>

\* the lock taken first is released last; after the first release the thread
\* sleeps for the crossing time, after the second the slice is over
SimSliceUnlock1 ==
    /\ alive /\ pc.sim \in {"s_slice_unlock1", "s_slice_end1"}
    /\ set_lock(time_slice_lock_order[1], sim.lane, FREE)
    /\ sim' = IF pc.sim = "s_slice_end1"
              THEN [ sim EXCEPT !.lane = -1, !.next_lane = -1, !.vehicle_id = -1,
                                !.recorded = FALSE ]
              ELSE sim
    /\ goto("sim", IF pc.sim = "s_slice_unlock1" THEN "s_slice_cross" ELSE "s_loop")
    /\ UNCHANGED << lanes, scheduler, scheduler_lock,
                    metrics, flags, total_vehicles_generated, now, emergency, others >>

\* after the crossing sleep the second lock is taken again
SimSliceRelock2 ==
    /\ alive /\ pc.sim = "s_slice_relock2"
    /\ lock_is_free(time_slice_lock_order[2], sim.lane)
    /\ set_lock(time_slice_lock_order[2], sim.lane, "sim")
    /\ goto("sim", "s_slice_record")
    /\ UNCHANGED << lanes, scheduler, scheduler_lock,
                    metrics, flags, total_vehicles_generated, now, sim, emergency, others >>

\* record_execution, which writes the record and moves history_index only if
\* scheduler_lock can be had at once (the fields of the records are followed
\* in SpecHistory); then the lane leaves RUNNING if its queue is empty
SimSliceRecord ==
    /\ alive /\ pc.sim = "s_slice_record"
    /\ scheduler' = IF scheduler_lock = FREE
                    THEN [ scheduler EXCEPT !.history_index = next_history_index(@) ]
                    ELSE scheduler
    /\ sim' = [ sim EXCEPT !.recorded = (scheduler_lock = FREE) ]
    /\ lanes' = [ lanes EXCEPT ![sim.lane] = time_slice_end(@) ]
    /\ goto("sim", "s_slice_end2")
    /\ UNCHANGED << queue_lock, scheduler_lock, global_state_lock,
                    metrics, flags, total_vehicles_generated, now, emergency, others >>

SimNext ==
    \/ SimLoop \/ SimUpdate
    \/ SimScheduleLock \/ SimSnapshot \/ SimSelect
    \/ SimSwitchFrom \/ SimSwitchTo \/ SimSwitchDone
    \/ SimScheduleUnlock
    \/ SimSliceLock1 \/ SimSliceDequeue \/ SimSliceRelock2
    \/ SimSliceUnlock2 \/ SimSliceUnlock1 \/ SimSliceRecord

\* ------------------------------------------ generator thread (main.c:17-76)
\* the while test, the pause test and the choice of a lane; once MaxVehicles
\* vehicles exist the generator only sleeps
GenLoop ==
    /\ alive /\ pc.gen = "g_loop"
    /\ IF simulation_running /\ keep_running
       THEN IF simulation_paused \/ total_vehicles_generated >= MaxVehicles
            THEN goto("gen", "g_loop") /\ UNCHANGED gen
            ELSE /\ \E lane_idx \in ArrivalLanes :
                      gen' = [ gen EXCEPT !.lane_idx = lane_idx ]
                 /\ goto("gen", "g_count")
       ELSE goto("gen", "done") /\ UNCHANGED gen
    /\ UNCHANGED << lanes, queue_lock, scheduler, scheduler_lock, global_state_lock,
                    metrics, flags, total_vehicles_generated, now, sim, emergency,
                    ui, threads, destroyed, violation_recorded, call >>

\* global_state_lock is taken for the counter
GenCountLock ==
    /\ alive /\ pc.gen = "g_count"
    /\ global_state_lock = FREE
    /\ global_state_lock' = "gen"
    /\ goto("gen", "g_count_unlock")
    /\ UNCHANGED << lanes, queue_lock, scheduler, scheduler_lock,
                    metrics, flags, total_vehicles_generated, now, sim, emergency, others >>

\* new_vehicle_id = total_vehicles_generated++, then the lock is released
GenCount ==
    /\ alive /\ pc.gen = "g_count_unlock"
    /\ gen' = [ gen EXCEPT !.new_vehicle_id = total_vehicles_generated ]
    /\ total_vehicles_generated' = total_vehicles_generated + 1
    /\ global_state_lock' = FREE
    /\ goto("gen", "g_add")
    /\ UNCHANGED << lanes, queue_lock, scheduler, scheduler_lock,
                    metrics, flags, now, sim, emergency,
                    ui, threads, destroyed, violation_recorded, call >>

\* add_vehicle_to_lane(lane, new_vehicle_id); with probability
\* 1 / EMERGENCY_PROBABILITY an emergency vehicle is added for the lane
GenAdd ==
    /\ alive /\ pc.gen = "g_add"
    /\ queue_lock[gen.lane_idx] = FREE
    /\ lanes' = [ lanes EXCEPT ![gen.lane_idx] = add_vehicle_to_lane(@, gen.new_vehicle_id, now) ]
    /\ \E is_emergency \in BOOLEAN :
          emergency' = IF is_emergency THEN add_emergency_vehicle(gen.lane_idx)
                       ELSE emergency
    /\ goto("gen", "g_wake")
    /\ UNCHANGED << queue_lock, scheduler, scheduler_lock, global_state_lock,
                    metrics, flags, total_vehicles_generated, now, sim, others >>

\* the lane is woken up: WAITING becomes READY; then usleep: at least
\* min_arrival_rate >= 1 seconds pass, so the next arrival reads a later
\* time(NULL)
GenWake ==
    /\ alive /\ pc.gen = "g_wake"
    /\ queue_lock[gen.lane_idx] = FREE
    /\ lanes' = [ lanes EXCEPT ![gen.lane_idx] = generator_wake(@) ]
    /\ now' = now + 1
    /\ gen' = InitGen
    /\ goto("gen", "g_loop")
    /\ UNCHANGED << queue_lock, scheduler, scheduler_lock, global_state_lock,
                    metrics, flags, total_vehicles_generated, sim, emergency,
                    ui, threads, destroyed, violation_recorded, call >>

GenNext ==
    \/ GenLoop \/ GenCountLock \/ GenCount \/ GenAdd \/ GenWake

\* ------------------ main thread (main.c:735-790, visualization.c:130-215)
\* the while test of the loop of main()
UiLoop ==
    /\ alive /\ pc.ui = "m_loop"
    /\ goto("ui", IF keep_running /\ simulation_running THEN "m_input" ELSE "m_stop")
    /\ UNCHANGED << lanes, queue_lock, scheduler, scheduler_lock, global_state_lock,
                    metrics, flags, total_vehicles_generated, now, sim, emergency, others >>

\* handle_user_input: no key was pressed; the duration has not elapsed
UiNoKey ==
    /\ alive /\ pc.ui = "m_input"
    /\ goto("ui", "m_loop")
    /\ UNCHANGED << lanes, queue_lock, scheduler, scheduler_lock, global_state_lock,
                    metrics, flags, total_vehicles_generated, now, sim, emergency, others >>

\* handle_user_input: 'q'
UiKeyQuit ==
    /\ alive /\ pc.ui = "m_input" /\ ui.keys < MaxKeys
    /\ keep_running' = FALSE
    /\ ui' = [ ui EXCEPT !.keys = @ + 1 ]
    /\ goto("ui", "m_loop")
    /\ UNCHANGED << lanes, queue_lock, scheduler, scheduler_lock, global_state_lock,
                    metrics, simulation_running, simulation_paused,
                    total_vehicles_generated, now, sim, emergency,
                    gen, threads, destroyed, violation_recorded, call >>

\* handle_user_input: ' '
UiKeyPause ==
    /\ alive /\ pc.ui = "m_input" /\ ui.keys < MaxKeys
    /\ simulation_paused' = ~simulation_paused
    /\ ui' = [ ui EXCEPT !.keys = @ + 1 ]
    /\ goto("ui", "m_loop")
    /\ UNCHANGED << lanes, queue_lock, scheduler, scheduler_lock, global_state_lock,
                    metrics, simulation_running, keep_running,
                    total_vehicles_generated, now, sim, emergency,
                    gen, threads, destroyed, violation_recorded, call >>

\* handle_user_input: '1', '2', '3': set_scheduling_algorithm tries
\* scheduler_lock; when it is busy the change is skipped
UiKeyAlgorithm ==
    /\ alive /\ pc.ui = "m_input" /\ ui.keys < MaxKeys
    /\ \E algorithm \in Algorithms :
          /\ IF scheduler_lock = FREE
             THEN /\ scheduler_lock' = "ui"
                  /\ scheduler' = [ scheduler EXCEPT !.algorithm = algorithm,
                                                     !.current_lane = -1 ]
                  /\ goto("ui", "m_set_check")
             ELSE /\ UNCHANGED << scheduler_lock, scheduler >>
                  /\ goto("ui", "m_set_return")
          /\ ui' = [ ui EXCEPT !.keys = @ + 1, !.algorithm = algorithm ]
    /\ UNCHANGED << lanes, queue_lock, global_state_lock,
                    metrics, flags, total_vehicles_generated, now, sim, emergency,
                    gen, threads, destroyed, violation_recorded, call >>

\* handle_user_input: 'e': the call of trigger_emergency_vehicle is commented
\* out, the key does nothing
UiKeyEmergency ==
    /\ alive /\ pc.ui = "m_input" /\ ui.keys < MaxKeys
    /\ ui' = [ ui EXCEPT !.keys = @ + 1 ]
    /\ goto("ui", "m_loop")
    /\ UNCHANGED << lanes, queue_lock, scheduler, scheduler_lock, global_state_lock,
                    metrics, flags, total_vehicles_generated, now, sim, emergency,
                    gen, threads, destroyed, violation_recorded, call >>

\* set_scheduling_algorithm: the test of simulation_running
UiSetCheck ==
    /\ alive /\ pc.ui = "m_set_check"
    /\ ui' = [ ui EXCEPT !.i = 0 ]
    /\ goto("ui", IF simulation_running THEN "m_set_lane" ELSE "m_set_unlock")
    /\ UNCHANGED << lanes, queue_lock, scheduler, scheduler_lock, global_state_lock,
                    metrics, flags, total_vehicles_generated, now, sim, emergency,
                    gen, threads, destroyed, violation_recorded, call >>

\* set_scheduling_algorithm: lane ui.i is stopped if it is RUNNING
UiSetLane ==
    /\ alive /\ pc.ui = "m_set_lane"
    /\ queue_lock[ui.i] = FREE
    /\ lanes' = [ lanes EXCEPT ![ui.i] = reset_running_lane(@) ]
    /\ ui' = [ ui EXCEPT !.i = IF ui.i = NUM_LANES - 1 THEN 0 ELSE ui.i + 1 ]
    /\ goto("ui", IF ui.i = NUM_LANES - 1 THEN "m_set_unlock" ELSE "m_set_lane")
    /\ UNCHANGED << queue_lock, scheduler, scheduler_lock, global_state_lock,
                    metrics, flags, total_vehicles_generated, now, sim, emergency,
                    gen, threads, destroyed, violation_recorded, call >>

\* set_scheduling_algorithm releases scheduler_lock
UiSetUnlock ==
    /\ alive /\ pc.ui = "m_set_unlock"
    /\ scheduler_lock' = FREE
    /\ goto("ui", "m_set_return")
    /\ UNCHANGED << lanes, queue_lock, scheduler, global_state_lock,
                    metrics, flags, total_vehicles_generated, now, sim, emergency, others >>

\* set_scheduling_algorithm returns to handle_user_input
UiSetReturn ==
    /\ alive /\ pc.ui = "m_set_return"
    /\ ui' = [ ui EXCEPT !.algorithm = "none" ]
    /\ goto("ui", "m_loop")
    /\ UNCHANGED << lanes, queue_lock, scheduler, scheduler_lock, global_state_lock,
                    metrics, flags, total_vehicles_generated, now, sim, emergency,
                    gen, threads, destroyed, violation_recorded, call >>

\* the test of simulation_end_time: the duration has elapsed
UiDuration ==
    /\ alive /\ pc.ui = "m_input"
    /\ goto("ui", "m_stop")
    /\ UNCHANGED << lanes, queue_lock, scheduler, scheduler_lock, global_state_lock,
                    metrics, flags, total_vehicles_generated, now, sim, emergency, others >>

\* stop_traffic_simulation: returns at once unless simulation_running
UiStop ==
    /\ alive /\ pc.ui = "m_stop"
    /\ IF simulation_running
       THEN simulation_running' = FALSE /\ goto("ui", "m_stop_scheduler")
       ELSE UNCHANGED simulation_running /\ goto("ui", "m_destroy")
    /\ UNCHANGED << lanes, queue_lock, scheduler, scheduler_lock, global_state_lock,
                    metrics, simulation_paused, keep_running,
                    total_vehicles_generated, now, sim, emergency, others >>

\* stop_scheduler, under scheduler_lock
UiStopScheduler ==
    /\ alive /\ pc.ui = "m_stop_scheduler"
    /\ scheduler_lock = FREE
    /\ scheduler' = [ scheduler EXCEPT !.scheduler_running = FALSE ]
    /\ goto("ui", "m_join_sim")
    /\ UNCHANGED << lanes, queue_lock, scheduler_lock, global_state_lock,
                    metrics, flags, total_vehicles_generated, now, sim, emergency, others >>

\* pthread_join(simulation_thread)
UiJoinSim ==
    /\ alive /\ pc.ui = "m_join_sim"
    /\ pc.sim = "done"
    /\ threads' = [ threads EXCEPT !.simulation_thread = FALSE ]
    /\ goto("ui", "m_join_gen")
    /\ UNCHANGED << lanes, queue_lock, scheduler, scheduler_lock, global_state_lock,
                    metrics, flags, total_vehicles_generated, now, sim, emergency,
                    gen, ui, destroyed, violation_recorded, call >>

\* pthread_join(vehicle_generator_thread)
UiJoinGen ==
    /\ alive /\ pc.ui = "m_join_gen"
    /\ pc.gen = "done"
    /\ threads' = [ threads EXCEPT !.vehicle_generator_thread = FALSE ]
    /\ goto("ui", "m_destroy")
    /\ UNCHANGED << lanes, queue_lock, scheduler, scheduler_lock, global_state_lock,
                    metrics, flags, total_vehicles_generated, now, sim, emergency,
                    gen, ui, destroyed, violation_recorded, call >>

\* cleanup_and_exit: destroy_traffic_guru_system frees the state, exit ends
\* every thread
UiDestroy ==
    /\ alive /\ pc.ui = "m_destroy"
    /\ ~simulation_running
    /\ destroyed' = TRUE
    /\ goto("ui", "exit")
    /\ UNCHANGED << lanes, queue_lock, scheduler, scheduler_lock, global_state_lock,
                    metrics, flags, total_vehicles_generated, now, sim, emergency,
                    gen, ui, threads, violation_recorded, call >>

UiNext ==
    \/ UiLoop \/ UiNoKey \/ UiKeyQuit \/ UiKeyPause \/ UiKeyAlgorithm \/ UiKeyEmergency
    \/ UiSetCheck \/ UiSetLane \/ UiSetUnlock \/ UiSetReturn \/ UiDuration
    \/ UiStop \/ UiStopScheduler \/ UiJoinSim \/ UiJoinGen \/ UiDestroy

\* handle_signal_interrupt / handle_signal_terminate
Signal ==
    /\ alive
    /\ keep_running \/ simulation_running
    /\ keep_running' = FALSE
    /\ simulation_running' = FALSE
    /\ UNCHANGED << lanes, queue_lock, scheduler, scheduler_lock, global_state_lock,
                    metrics, simulation_paused, total_vehicles_generated, now,
                    pc, sim, emergency, others >>

Next == SimNext \/ GenNext \/ UiNext \/ Signal

Spec == Init /\ [][Next]_vars

\* ------------------------------------------------ policy driver (one call)
\* the threads, locks and flags of a system in which only the calling
\* thread runs
system == << scheduler, scheduler_lock, global_state_lock, metrics,
             simulation_running, simulation_paused, keep_running,
             total_vehicles_generated, now, sim, gen, ui, threads,
             destroyed, emergency, violation_recorded >>

\* the fields a policy reads of a lane that is not READY
IdleFields ==
    { [ state |-> st, queue_length |-> q, arrival_time |-> 0, waiting_time |-> 0,
        total_vehicles_served |-> 0, total_waiting_time |-> 0 ] :
      st \in LaneStates \ {READY}, q \in {0, MaxPolicyQueue} }

\* the fields policy p reads of a READY lane: the fields p does not read
\* stay at their initial value
ReadyFields(p) ==
    { [ state |-> READY, queue_length |-> q, arrival_time |-> a, waiting_time |-> w,
        total_vehicles_served |-> h.served, total_waiting_time |-> h.waited ] :
      q \in 0 .. MaxPolicyQueue,
      a \in IF p = "sjf" THEN 0 .. MaxPolicyTime ELSE {0},
      w \in IF p \in {"aging", "enhanced"} THEN {0, 40 * MaxPolicyTime} ELSE {0},
      h \in IF p \in {"enhanced", "predictive"}
            THEN { [ served |-> 0, waited |-> 0 ],
                   [ served |-> 1, waited |-> 40 * MaxPolicyTime ] }
            ELSE { [ served |-> 0, waited |-> 0 ] } }

\* lane i with the fields f
PolicyLane(i, f) ==
    [ init_lane_process(i, MaxPolicyQueue, 0) EXCEPT
        !.queue = [ k \in 1 .. f.queue_length |-> k ],
        !.queue_length = f.queue_length,
        !.state = f.state,
        !.last_arrival_time = f.arrival_time,
        !.waiting_time = f.waiting_time,
        !.total_vehicles_served = f.total_vehicles_served,
        !.total_waiting_time = f.total_waiting_time ]

PolicyInit ==
    /\ \E p \in Policies :
          /\ call = [ IdleCall EXCEPT !.fn = p ]
          /\ \E f \in [ Lanes -> IdleFields \cup ReadyFields(p) ] :
                lanes = [ i \in Lanes |-> PolicyLane(i, f[i]) ]
    /\ scheduler = InitScheduler(SJF)
    /\ pc = [ sim |-> "policy", gen |-> "done", ui |-> "done" ]
    /\ now = MaxPolicyTime
    /\ InitRest

policy_snapshot == [ i \in Lanes |-> snapshot_of(lanes[i]) ]

\* the lane whose queue_lock the policy locks a second time
relocked_lane(p, snap) ==
    IF p = "predictive" THEN 0
    ELSE CHOOSE i \in Lanes :
            /\ snap[i].total_vehicles_served # 0
            /\ \A j \in Lanes : snap[j].total_vehicles_served # 0 => i <= j

\* the policy returns its result
PolicyReturns ==
    /\ pc.sim = "policy" /\ call.status = "idle"
    /\ call' = [ call EXCEPT !.status = "returned",
                             !.result = policy_result(call.fn, policy_snapshot, now) ]
    /\ goto("sim", "done")
    /\ UNCHANGED << lanes, queue_lock, system >>

\* the second lock of a queue_lock the thread holds never returns
PolicyDeadlocks ==
    /\ pc.sim = "policy" /\ call.status = "idle"
    /\ policy_relocks(call.fn, policy_snapshot)
    /\ call' = [ call EXCEPT !.status = "deadlocked" ]
    /\ queue_lock' = [ queue_lock EXCEPT ![relocked_lane(call.fn, policy_snapshot)] = "sim" ]
    /\ goto("sim", "blocked")
    /\ UNCHANGED << lanes, system >>

PolicyNext == PolicyReturns \/ PolicyDeadlocks

SpecPolicy == PolicyInit /\ [][PolicyNext]_vars

\* ------------------------------------------------- lane-operation driver
LaneInit ==
    /\ lanes = InitLanes
    /\ scheduler = InitScheduler(SJF)
    /\ pc = [ sim |-> "lane_calls", gen |-> "done", ui |-> "done" ]
    /\ now = 0
    /\ call = IdleCall
    /\ InitRest

\* add_vehicle_to_lane(&lanes[i], vehicle_id) after dt seconds
LaneAdd ==
    /\ call.count < MaxLaneCalls
    /\ \E i \in Lanes, dt \in {0, 1} :
          /\ now' = now + dt
          /\ lanes' = [ lanes EXCEPT ![i] = add_vehicle_to_lane(@, call.count, now') ]
          /\ call' = [ fn |-> "add", status |-> "returned", result |-> -1, lane |-> i,
                       count |-> call.count + 1, before |-> lanes[i] ]
    /\ UNCHANGED << queue_lock, scheduler, scheduler_lock, global_state_lock, metrics,
                    flags, total_vehicles_generated, pc, sim, gen, ui, threads,
                    destroyed, emergency, violation_recorded >>

\* remove_vehicle_from_lane(&lanes[i])
LaneRemove ==
    /\ call.count < MaxLaneCalls
    /\ \E i \in Lanes :
          /\ lanes' = [ lanes EXCEPT ![i] = remove_vehicle_from_lane(@) ]
          /\ call' = [ fn |-> "remove", status |-> "returned",
                       result |-> removed_vehicle(lanes[i]), lane |-> i,
                       count |-> call.count + 1, before |-> lanes[i] ]
    /\ UNCHANGED << queue_lock, pc, system >>

LaneNext == LaneAdd \/ LaneRemove

SpecLane == LaneInit /\ [][LaneNext]_vars

\* ------------------------------------------------ execution-history driver
\* record_execution, get_execution_history and print_execution_history called
\* on a scheduler whose execution_history has history_size entries, while
\* another thread takes and releases scheduler_lock. call.written lists the
\* records that record_execution has written, oldest first.
HistoryInit ==
    /\ lanes = InitLanes
    /\ scheduler = [ algorithm |-> SJF,
                     current_lane |-> -1,
                     total_context_switches |-> 0,
                     execution_history |-> [ k \in 0 .. (history_size - 1) |-> NoRecord ],
                     history_index |-> 0,
                     scheduler_running |-> TRUE ]
    /\ pc = [ sim |-> "history_calls", gen |-> "done", ui |-> "done" ]
    /\ now = 0
    /\ call = [ fn |-> "none", status |-> "idle", result |-> 0, locked |-> FALSE,
                count |-> 0, written |-> << >>, printed |-> << >> ]
    /\ InitRest

\* another thread (set_scheduling_algorithm, schedule_next_lane) takes or
\* releases scheduler_lock
HistoryOtherThread ==
    /\ scheduler_lock' = IF scheduler_lock = FREE THEN "ui" ELSE FREE
    /\ UNCHANGED << lanes, queue_lock, scheduler, global_state_lock, metrics, flags,
                    total_vehicles_generated, now, pc, sim, gen, ui, threads,
                    destroyed, emergency, violation_recorded, call >>

\* record_execution(scheduler, lane_id, start_time, end_time, vehicles_processed)
\* at the end of a time slice that began at time now
HistoryRecord ==
    /\ call.count < MaxHistoryCalls
    /\ \E lane_id \in ArrivalLanes, vehicles_processed \in {0, 1} :
          LET start_time == now
              end_time == now + vehicles_processed * VEHICLE_CROSS_TIME
              record == execution_record(lane_id, start_time, end_time, vehicles_processed)
          IN  /\ scheduler' = IF scheduler_lock = FREE
                              THEN [ scheduler EXCEPT
                                       !.execution_history[scheduler.history_index] = record,
                                       !.history_index = next_history_index(@) ]
                              ELSE scheduler
              /\ now' = end_time + 1
              /\ call' = [ call EXCEPT !.fn = "record_execution", !.status = "returned",
                                       !.locked = (scheduler_lock = FREE),
                                       !.count = @ + 1,
                                       !.written = IF scheduler_lock = FREE
                                                   THEN Append(@, record) ELSE @ ]
    /\ UNCHANGED << lanes, queue_lock, scheduler_lock, global_state_lock, metrics, flags,
                    total_vehicles_generated, pc, sim, gen, ui, threads,
                    destroyed, emergency, violation_recorded >>

\* the record count get_execution_history and print_execution_history compute
history_count(sch) ==
    IF sch.history_index < history_size THEN sch.history_index ELSE history_size

\* the index print_execution_history starts from
history_start_index(sch) ==
    IF sch.history_index < history_size THEN 0 ELSE sch.history_index

\* get_execution_history(scheduler, &count)
HistoryGet ==
    /\ call' = [ call EXCEPT !.fn = "get_execution_history", !.status = "returned",
                             !.locked = (scheduler_lock = FREE),
                             !.result = IF scheduler_lock = FREE
                                        THEN history_count(scheduler) ELSE 0,
                             !.printed = << >> ]
    /\ UNCHANGED << lanes, queue_lock, scheduler, scheduler_lock, global_state_lock,
                    metrics, flags, total_vehicles_generated, now, pc, sim, gen, ui,
                    threads, destroyed, emergency, violation_recorded >>

\* print_execution_history(scheduler), which waits for scheduler_lock
HistoryPrint ==
    /\ scheduler_lock = FREE
    /\ call' = [ call EXCEPT !.fn = "print_execution_history", !.status = "returned",
                             !.locked = TRUE,
                             !.result = history_count(scheduler),
                             !.printed = [ i \in 1 .. history_count(scheduler) |->
                                             scheduler.execution_history[
                                                (history_start_index(scheduler) + i - 1)
                                                   % history_size] ] ]
    /\ UNCHANGED << lanes, queue_lock, scheduler, scheduler_lock, global_state_lock,
                    metrics, flags, total_vehicles_generated, now, pc, sim, gen, ui,
                    threads, destroyed, emergency, violation_recorded >>

HistoryNext == HistoryOtherThread \/ HistoryRecord \/ HistoryGet \/ HistoryPrint

SpecHistory == HistoryInit /\ [][HistoryNext]_vars

\* ------------------------------------------------------ pause/resume driver
\* variant: pause flips the flag, as the space key of handle_user_input does
pause_traffic_simulation_toggling(paused) == ~paused

\* simulation_paused after pause_traffic_simulation()
pause_traffic_simulation(paused) == TRUE

\* simulation_paused after resume_traffic_simulation()
resume_traffic_simulation(paused) == FALSE

\* a started system, paused or not, on which the two functions are called;
\* call.calls lists the calls made so far
PauseInit ==
    /\ lanes = InitLanes
    /\ scheduler = InitScheduler(SJF)
    /\ pc = [ sim |-> "pause_calls", gen |-> "done", ui |-> "done" ]
    /\ now = 0
    /\ call = [ fn |-> "none", status |-> "idle", count |-> 0, calls |-> << >> ]
    /\ queue_lock = [ i \in Lanes |-> FREE ]
    /\ scheduler_lock = FREE
    /\ global_state_lock = FREE
    /\ metrics = InitMetrics
    /\ simulation_running \in BOOLEAN
    /\ simulation_paused \in BOOLEAN
    /\ keep_running = TRUE
    /\ total_vehicles_generated = 0
    /\ sim = InitSim
    /\ gen = InitGen
    /\ ui = InitUi
    /\ threads = [ simulation_thread |-> TRUE, vehicle_generator_thread |-> TRUE ]
    /\ destroyed = FALSE
    /\ emergency = NoEmergency
    /\ violation_recorded = FALSE

\* pause_traffic_simulation()
PauseCall ==
    /\ call.count < MaxPauseCalls
    /\ simulation_paused' = pause_traffic_simulation(simulation_paused)
    /\ call' = [ fn |-> "pause", status |-> "returned", count |-> call.count + 1,
                 calls |-> Append(call.calls, "pause") ]
    /\ UNCHANGED << lanes, queue_lock, scheduler, scheduler_lock, global_state_lock,
                    metrics, simulation_running, keep_running,
                    total_vehicles_generated, now, pc, sim, gen, ui, threads,
                    destroyed, emergency, violation_recorded >>

\* resume_traffic_simulation()
ResumeCall ==
    /\ call.count < MaxPauseCalls
    /\ simulation_paused' = resume_traffic_simulation(simulation_paused)
    /\ call' = [ fn |-> "resume", status |-> "returned", count |-> call.count + 1,
                 calls |-> Append(call.calls, "resume") ]
    /\ UNCHANGED << lanes, queue_lock, scheduler, scheduler_lock, global_state_lock,
                    metrics, simulation_running, keep_running,
                    total_vehicles_generated, now, pc, sim, gen, ui, threads,
                    destroyed, emergency, violation_recorded >>

PauseNext == PauseCall \/ ResumeCall

SpecPause == PauseInit /\ [][PauseNext]_vars

\* --------------------------------------------------------- dashboard driver
\* draw_lanes_window and draw_metrics_window, frame after frame, while the
\* simulation and generator threads take the locks, change what the locks
\* protect and release them.

\* variant: the attempt waits for a busy lock, as pthread_mutex_lock does
pthread_mutex_trylock_waiting(holder) == IF holder = FREE THEN "acquired" ELSE "wait"

\* pthread_mutex_trylock: 0 (acquired) or EBUSY
pthread_mutex_trylock(holder) == IF holder = FREE THEN "acquired" ELSE "busy"

\* queues[], waits[] and states[] of draw_lanes_window before they are assigned
NoFrame == [ i \in Lanes |-> [ queue |-> -1, wait |-> -1, state |-> "unset" ] ]

\* the value draw_lanes_window shows for a lane, from the last_* statics
cached_lane(u, i) ==
    [ queue |-> u.last_queues[i], wait |-> u.last_waits[i], state |-> u.last_states[i] ]

\* the statics of visualization.c and the locals of the frame being drawn
InitDisplay ==
    [ keys |-> 0, i |-> 0, algorithm |-> "none",
      last_queues |-> [ i \in Lanes |-> 0 ],
      last_waits |-> [ i \in Lanes |-> 0 ],
      last_states |-> [ i \in Lanes |-> WAITING ],
      last_metrics |-> InitMetrics,
      last_emergency_mode |-> FALSE,
      frame |-> NoFrame,
      attempt |-> "none" ]

DisplayInit ==
    /\ lanes = InitLanes
    /\ scheduler = InitScheduler(SJF)
    /\ pc = [ sim |-> "other", gen |-> "other", ui |-> "d_lane" ]
    /\ now = 0
    /\ call = [ fn |-> "none", status |-> "idle", count |-> 0 ]
    /\ queue_lock = [ i \in Lanes |-> FREE ]
    /\ scheduler_lock = FREE
    /\ global_state_lock = FREE
    /\ metrics = InitMetrics
    /\ simulation_running = TRUE
    /\ simulation_paused = FALSE
    /\ keep_running = TRUE
    /\ total_vehicles_generated = 0
    /\ sim = InitSim
    /\ gen = InitGen
    /\ ui = InitDisplay
    /\ threads = [ simulation_thread |-> TRUE, vehicle_generator_thread |-> TRUE ]
    /\ destroyed = FALSE
    /\ emergency = NoEmergency
    /\ violation_recorded = FALSE

\* the simulation or generator thread takes a lock, changes what it protects
\* (an arrival and its wake-up, a context switch, a departure, a counted
\* vehicle) or releases it
DisplayOtherThread ==
    /\ \E t \in {"sim", "gen"} :
         \/ \E i \in ArrivalLanes :
              /\ queue_lock[i] = FREE
              /\ queue_lock' = [ queue_lock EXCEPT ![i] = t ]
              /\ UNCHANGED << lanes, global_state_lock, metrics, call >>
         \/ \E i \in ArrivalLanes :
              /\ queue_lock[i] = t
              /\ queue_lock' = [ queue_lock EXCEPT ![i] = FREE ]
              /\ UNCHANGED << lanes, global_state_lock, metrics, call >>
         \/ \E i \in ArrivalLanes :
              /\ queue_lock[i] = t /\ call.count < MaxDisplaySteps
              /\ lanes' = [ lanes EXCEPT ![i] =
                              IF t = "gen"
                              THEN generator_wake(add_vehicle_to_lane(@, 0, now))
                              ELSE IF @.state = READY THEN context_switch_to(@)
                              ELSE time_slice_end(remove_vehicle_from_lane(@)) ]
              /\ call' = [ call EXCEPT !.count = @ + 1 ]
              /\ UNCHANGED << queue_lock, global_state_lock, metrics >>
         \/ /\ global_state_lock = FREE
            /\ global_state_lock' = t
            /\ UNCHANGED << lanes, queue_lock, metrics, call >>
         \/ /\ global_state_lock = t
            /\ global_state_lock' = FREE
            /\ UNCHANGED << lanes, queue_lock, metrics, call >>
         \/ /\ global_state_lock = t /\ t = "sim" /\ call.count < MaxDisplaySteps
            /\ metrics' = [ metrics EXCEPT !.total_vehicles_processed = @ + 1 ]
            /\ call' = [ call EXCEPT !.count = @ + 1 ]
            /\ UNCHANGED << lanes, queue_lock, global_state_lock >>
    /\ UNCHANGED << scheduler, scheduler_lock, flags, total_vehicles_generated, now,
                    pc, sim, gen, ui, threads, destroyed, emergency,
                    violation_recorded >>

\* where draw_lanes_window goes after lane i
after_lane(i) == IF i = NUM_LANES - 1 THEN "d_emergency" ELSE "d_lane"

\* draw_lanes_window: the attempt on lanes[i].queue_lock; when it fails the
\* frame takes the cached values
DrawLaneTry ==
    /\ pc.ui \in {"d_lane", "d_lane_wait"}
    /\ LET attempt == pthread_mutex_trylock(queue_lock[ui.i])
       IN  /\ queue_lock' = IF attempt = "acquired"
                            THEN [ queue_lock EXCEPT ![ui.i] = "ui" ] ELSE queue_lock
           /\ ui' = IF attempt = "busy"
                    THEN [ ui EXCEPT !.attempt = attempt,
                                     !.frame[ui.i] = cached_lane(ui, ui.i),
                                     !.i = (ui.i + 1) % NUM_LANES ]
                    ELSE [ ui EXCEPT !.attempt = attempt ]
           /\ goto("ui", CASE attempt = "acquired" -> "d_lane_read"
                           [] attempt = "busy" -> after_lane(ui.i)
                           [] OTHER -> "d_lane_wait")
    /\ UNCHANGED << lanes, scheduler, scheduler_lock, global_state_lock, metrics,
                    flags, total_vehicles_generated, now, sim, gen, threads,
                    destroyed, emergency, violation_recorded, call >>

\* draw_lanes_window: the statics are refreshed under the lane's lock, the
\* lock is released and the frame takes the refreshed values
DrawLaneRead ==
    /\ pc.ui = "d_lane_read"
    /\ queue_lock' = [ queue_lock EXCEPT ![ui.i] = FREE ]
    /\ LET u == [ ui EXCEPT !.last_queues[ui.i] = lanes[ui.i].queue_length,
                            !.last_waits[ui.i] = lanes[ui.i].waiting_time,
                            !.last_states[ui.i] = lanes[ui.i].state ]
       IN  ui' = [ u EXCEPT !.frame[ui.i] = cached_lane(u, ui.i),
                            !.i = (ui.i + 1) % NUM_LANES ]
    /\ goto("ui", after_lane(ui.i))
    /\ UNCHANGED << lanes, scheduler, scheduler_lock, global_state_lock, metrics,
                    flags, total_vehicles_generated, now, sim, gen, threads,
                    destroyed, emergency, violation_recorded, call >>

\* the attempt on global_state_lock of draw_lanes_window (emergency status)
\* and of draw_metrics_window (metrics); after the metrics the next frame
\* begins
DrawGlobalTry ==
    /\ pc.ui \in {"d_emergency", "d_emergency_wait", "d_metrics", "d_metrics_wait"}
    /\ LET attempt == pthread_mutex_trylock(global_state_lock)
           emergency_part == pc.ui \in {"d_emergency", "d_emergency_wait"}
       IN  /\ global_state_lock' = IF attempt = "acquired" THEN "ui"
                                   ELSE global_state_lock
           /\ ui' = IF attempt = "busy" /\ ~emergency_part
                    THEN [ ui EXCEPT !.attempt = attempt, !.frame = NoFrame ]
                    ELSE [ ui EXCEPT !.attempt = attempt ]
           /\ goto("ui", CASE attempt = "acquired" ->
                              IF emergency_part THEN "d_emergency_read"
                              ELSE "d_metrics_read"
                           [] attempt = "busy" ->
                              IF emergency_part THEN "d_metrics" ELSE "d_lane"
                           [] OTHER ->
                              IF emergency_part THEN "d_emergency_wait"
                              ELSE "d_metrics_wait")
    /\ UNCHANGED << lanes, queue_lock, scheduler, scheduler_lock, metrics,
                    flags, total_vehicles_generated, now, sim, gen, threads,
                    destroyed, emergency, violation_recorded, call >>

\* last_emergency_mode or last_metrics is refreshed under global_state_lock
\* and the lock is released
DrawGlobalRead ==
    /\ pc.ui \in {"d_emergency_read", "d_metrics_read"}
    /\ global_state_lock' = FREE
    /\ ui' = IF pc.ui = "d_emergency_read"
             THEN [ ui EXCEPT !.last_emergency_mode = (emergency # NoEmergency) ]
             ELSE [ ui EXCEPT !.last_metrics = metrics, !.frame = NoFrame ]
    /\ goto("ui", IF pc.ui = "d_emergency_read" THEN "d_metrics" ELSE "d_lane")
    /\ UNCHANGED << lanes, queue_lock, scheduler, scheduler_lock, metrics,
                    flags, total_vehicles_generated, now, sim, gen, threads,
                    destroyed, emergency, violation_recorded, call >>

DisplayNext ==
    DisplayOtherThread \/ DrawLaneTry \/ DrawLaneRead \/ DrawGlobalTry \/ DrawGlobalRead

SpecDisplay == DisplayInit /\ [][DisplayNext]_vars

\* ------------------------------------------------ quadrant-allocator driver
\* The allocator of the intersection quadrants (bankers_algorithm.c): a lane's
\* requested_quadrants is what it still needs, allocated_quadrants what it holds.
RECURSIVE sum_allocated(_, _)
sum_allocated(ls, S) ==
    IF S = {} THEN 0
    ELSE LET i == CHOOSE x \in S : TRUE
         IN  ls[i].allocated_quadrants + sum_allocated(ls, S \ {i})

available(ls) == TOTAL_QUADRANTS - sum_allocated(ls, Lanes)

\* the safety sweep: any unfinished lane whose remaining need fits in what is
\* available releases what it holds and is marked finished
RECURSIVE safety_sweep(_, _, _)
safety_sweep(ls, avail, finished) ==
    LET able == { i \in Lanes \ finished : ls[i].requested_quadrants <= avail }
    IN  IF able = {} THEN finished
        ELSE LET i == CHOOSE x \in able : \A y \in able : x <= y
             IN  safety_sweep(ls, avail + ls[i].allocated_quadrants, finished \cup {i})

is_safe_state(ls) == safety_sweep(ls, available(ls), {}) = Lanes

\* the lanes with the grant of n quadrants to lane i made
tentative_grant(ls, i, n) ==
    [ ls EXCEPT ![i].allocated_quadrants = @ + n, ![i].requested_quadrants = 0 ]

\* the lanes with the request of lane i denied: the lane blocks and keeps
\* what it holds; the request is kept for the retry if it can ever be met
denied_request(ls, i, n) ==
    [ ls EXCEPT ![i].requested_quadrants =
                   IF ls[i].allocated_quadrants + n <= TOTAL_QUADRANTS THEN n ELSE @,
                ![i].state = BLOCKED ]

\* variant: a request that fits in what is available is granted without the sweep
request_quadrants_unswept(ls, i, n) ==
    IF n <= available(ls)
    THEN tentative_grant(ls, i, n)
    ELSE denied_request(ls, i, n)

\* requestQuadrants(lane, n): the grant is committed if it fits and the state
\* after it passes the sweep; otherwise the lane blocks with its request
request_quadrants(ls, i, n) ==
    IF n <= available(ls) /\ is_safe_state(tentative_grant(ls, i, n))
    THEN tentative_grant(ls, i, n)
    ELSE denied_request(ls, i, n)

\* whether request_quadrants grants
request_granted(ls, i, n) ==
    request_quadrants(ls, i, n)[i].allocated_quadrants = ls[i].allocated_quadrants + n

AllocatorInit ==
    /\ lanes = InitLanes
    /\ scheduler = InitScheduler(SJF)
    /\ pc = [ sim |-> "allocator_calls", gen |-> "done", ui |-> "done" ]
    /\ now = 0
    /\ call = [ fn |-> "none", status |-> "idle", lane |-> -1, n |-> 0,
                result |-> "none", count |-> 0, before |-> InitLanes, log |-> << >> ]
    /\ InitRest

\* requestQuadrants(i, n)
AllocatorRequest ==
    /\ call.count < MaxAllocatorCalls
    /\ \E i \in Lanes, n \in 1 .. TOTAL_QUADRANTS :
          LET result == IF request_granted(lanes, i, n) THEN "granted" ELSE "denied"
          IN  /\ lanes' = request_quadrants(lanes, i, n)
              /\ call' = [ fn |-> "request", status |-> "returned", lane |-> i, n |-> n,
                           result |-> result, count |-> call.count + 1,
                           before |-> lanes,
                           log |-> Append(call.log, << "request", i, n, result >>) ]
    /\ UNCHANGED << queue_lock, pc, system >>

\* release_intersection_quadrants(&lanes[i])
AllocatorRelease ==
    /\ call.count < MaxAllocatorCalls
    /\ \E i \in Lanes :
          /\ lanes' = [ lanes EXCEPT ![i] = release_intersection_quadrants(@) ]
          /\ call' = [ fn |-> "release", status |-> "returned", lane |-> i, n |-> 0,
                       result |-> "released", count |-> call.count + 1,
                       before |-> lanes,
                       log |-> Append(call.log, << "release", i, 0, "released" >>) ]
    /\ UNCHANGED << queue_lock, pc, system >>

\* request_intersection_quadrants(&lanes[i], n)
AllocatorLaneRequest ==
    /\ call.count < MaxAllocatorCalls
    /\ \E i \in Lanes, n \in 1 .. TOTAL_QUADRANTS :
          /\ lanes' = [ lanes EXCEPT ![i] = request_intersection_quadrants(@, n) ]
          /\ call' = [ fn |-> "lane_request", status |-> "returned", lane |-> i, n |-> n,
                       result |-> "stored", count |-> call.count + 1,
                       before |-> lanes,
                       log |-> Append(call.log, << "lane_request", i, n, "stored" >>) ]
    /\ UNCHANGED << queue_lock, pc, system >>

AllocatorNext == AllocatorRequest \/ AllocatorRelease \/ AllocatorLaneRequest

SpecAllocator == AllocatorInit /\ [][AllocatorNext]_vars

\* ------------------------------------------------- deadlock-detector driver

\* lane i is BLOCKED on a request that what is available cannot meet
blocked_waiting(ls, i) ==
    /\ ls[i].state = BLOCKED
    /\ ls[i].requested_quadrants > available(ls)

\* edge of the wait-for graph: BLOCKED lane i waits for BLOCKED lane j, which
\* holds quadrants that i asks for
waits_for(ls, i, j) ==
    /\ i # j
    /\ blocked_waiting(ls, i)
    /\ ls[j].state = BLOCKED
    /\ ls[j].allocated_quadrants > 0

\* a wait-for path of at most steps edges leads from i to j
RECURSIVE reaches(_, _, _, _)
reaches(ls, i, j, steps) ==
    /\ steps > 0
    /\ \/ waits_for(ls, i, j)
       \/ \E k \in Lanes : waits_for(ls, i, k) /\ reaches(ls, k, j, steps - 1)

on_cycle(ls, i) == reaches(ls, i, i, NUM_LANES)

has_cycle(ls) == \E i \in Lanes : on_cycle(ls, i)

\* the victim: the lane on a cycle with the smallest allocation, the lowest
\* lane id among equals
select_victim(ls) ==
    CHOOSE i \in Lanes :
        /\ on_cycle(ls, i)
        /\ \A j \in Lanes :
              on_cycle(ls, j) =>
                 \/ ls[i].allocated_quadrants < ls[j].allocated_quadrants
                 \/ /\ ls[i].allocated_quadrants = ls[j].allocated_quadrants
                    /\ i <= j

\* variant: the victim's quadrants are released but the lane stays BLOCKED
detect_and_resolve_advanced_deadlock_blocked(ls) ==
    IF has_cycle(ls)
    THEN [ ls EXCEPT ![select_victim(ls)] = release_intersection_quadrants(@) ]
    ELSE ls

\* detect_and_resolve_advanced_deadlock(lanes): one sweep of the detector
detect_and_resolve_advanced_deadlock(ls) ==
    IF has_cycle(ls)
    THEN [ ls EXCEPT ![select_victim(ls)] =
                        [ release_intersection_quadrants(@) EXCEPT !.state = WAITING ] ]
    ELSE ls

\* allocator states handed to the detector: every lane holds at most MaxHeld
\* quadrants and asks for at most MaxNeed more, within the total; a lane that
\* was denied is BLOCKED
DetectorLanes ==
    { ls \in [ Lanes -> { [ InitLanes[0] EXCEPT !.allocated_quadrants = a,
                                               !.requested_quadrants = r,
                                               !.state = s ] :
                            a \in 0 .. MaxHeld, r \in 0 .. MaxNeed,
                            s \in { WAITING, BLOCKED } } ] :
        /\ sum_allocated(ls, Lanes) <= TOTAL_QUADRANTS
        /\ \A i \in Lanes :
              /\ ls[i].allocated_quadrants + ls[i].requested_quadrants
                    <= TOTAL_QUADRANTS
              /\ ls[i].state = BLOCKED => ls[i].requested_quadrants > 0 }

DetectorInit ==
    /\ \E ls \in DetectorLanes :
          /\ lanes = [ i \in Lanes |-> [ ls[i] EXCEPT !.lane_id = i ] ]
          /\ call = [ fn |-> "none", status |-> "idle", count |-> 0,
                      before |-> [ i \in Lanes |-> [ ls[i] EXCEPT !.lane_id = i ] ] ]
    /\ scheduler = InitScheduler(SJF)
    /\ pc = [ sim |-> "detector_calls", gen |-> "done", ui |-> "done" ]
    /\ now = 0
    /\ InitRest

\* main.c:509-511: the periodic sweep
DetectorRun ==
    /\ call.count < MaxDetectorRuns
    /\ lanes' = detect_and_resolve_advanced_deadlock(lanes)
    /\ call' = [ fn |-> "detect", status |-> "returned", count |-> call.count + 1,
                 before |-> lanes ]
    /\ UNCHANGED << queue_lock, pc, system >>

DetectorNext == DetectorRun

SpecDetector == DetectorInit /\ [][DetectorNext]_vars

\* ------------------------------------------------- command-line driver

\* the value of a decimal digit
DigitValue ==
    [ c \in { "0", "1", "2", "3", "4", "5", "6", "7", "8", "9" } |->
        CASE c = "0" -> 0 [] c = "1" -> 1 [] c = "2" -> 2 [] c = "3" -> 3
          [] c = "4" -> 4 [] c = "5" -> 5 [] c = "6" -> 6 [] c = "7" -> 7
          [] c = "8" -> 8 [] c = "9" -> 9 ]

\* the digits at the head of s, read as a number that continues acc
RECURSIVE atoi_digits(_, _)
atoi_digits(s, acc) ==
    IF s = << >> \/ Head(s) \notin DOMAIN DigitValue
    THEN acc
    ELSE atoi_digits(Tail(s), acc * 10 + DigitValue[Head(s)])

\* atoi: an optional sign, then digits up to the first other character
atoi(s) ==
    IF s = << >> THEN 0
    ELSE IF Head(s) = "-" THEN 0 - atoi_digits(Tail(s), 0)
    ELSE IF Head(s) = "+" THEN atoi_digits(Tail(s), 0)
    ELSE atoi_digits(s, 0)

\* an option that is not on the command line
Omitted == << "omitted" >>

given(optarg) == optarg # Omitted

\* main.c:109-118: the values of a command line without options
DefaultArgs ==
    [ duration |-> SIMULATION_DURATION,
      min_arrival_rate |-> VEHICLE_ARRIVAL_RATE_MIN,
      max_arrival_rate |-> VEHICLE_ARRIVAL_RATE_MAX,
      time_quantum |-> DEFAULT_TIME_QUANTUM,
      algorithm |-> SJF,
      help_requested |-> FALSE ]

\* the min/max exchange at the end of parse_command_line_args (main.c:192-196)
arrival_rates_ordered(args) ==
    IF args.min_arrival_rate > args.max_arrival_rate
    THEN [ args EXCEPT !.min_arrival_rate = args.max_arrival_rate,
                       !.max_arrival_rate = args.min_arrival_rate ]
    ELSE args

\* parse_command_line_args (main.c:108-199), for the options -d -a -A -q -g
parse_command_line_args(argv) ==
    arrival_rates_ordered(
        [ duration |->
              IF ~ given(argv.d) THEN DefaultArgs.duration
              ELSE IF atoi(argv.d) <= 0 THEN SIMULATION_DURATION ELSE atoi(argv.d),
          min_arrival_rate |->
              IF ~ given(argv.a) THEN DefaultArgs.min_arrival_rate
              ELSE IF atoi(argv.a) <= 0 THEN 1 ELSE atoi(argv.a),
          max_arrival_rate |->
              IF ~ given(argv.A) THEN DefaultArgs.max_arrival_rate
              ELSE IF atoi(argv.A) <= 0 THEN 5 ELSE atoi(argv.A),
          time_quantum |->
              IF ~ given(argv.q) THEN DefaultArgs.time_quantum
              ELSE IF atoi(argv.q) <= 0 THEN DEFAULT_TIME_QUANTUM ELSE atoi(argv.q),
          algorithm |->
              IF argv.g = "sjf" THEN SJF
              ELSE IF argv.g = "multilevel" THEN MULTILEVEL_FEEDBACK
              ELSE IF argv.g = "priority" THEN PRIORITY_ROUND_ROBIN
              ELSE DefaultArgs.algorithm,
          help_requested |->
              argv.g \notin { "omitted", "sjf", "multilevel", "priority" } ])

\* validate_command_line_args (main.c:234-243)
validate_command_line_args(args) ==
    [ args EXCEPT !.duration = IF @ < 10 THEN 10
                               ELSE IF @ > 3600 THEN 3600 ELSE @ ]

\* the texts given to the numeric options
NumberTexts ==
    { Omitted, << "0" >>, << "-", "5" >>, << "x" >>, << "2" >>, << "9" >>,
      << "6", "0" >>, << "3", "6", "0", "1" >> }

\* the names given to --algorithm
AlgorithmTexts == { "omitted", "sjf", "multilevel", "priority", "fifo" }

ArgsInit ==
    /\ lanes = InitLanes
    /\ scheduler = InitScheduler(SJF)
    /\ pc = [ sim |-> "done", gen |-> "done", ui |-> "args_parse" ]
    /\ now = 0
    /\ \E d \in NumberTexts, a \in NumberTexts, A \in NumberTexts,
          q \in NumberTexts, g \in AlgorithmTexts :
          call = [ fn |-> "main", status |-> "idle",
                   argv |-> [ d |-> d, a |-> a, A |-> A, q |-> q, g |-> g ],
                   args |-> DefaultArgs ]
    /\ InitRest

\* main.c:670
ArgsParse ==
    /\ pc.ui = "args_parse"
    /\ call' = [ call EXCEPT !.args = parse_command_line_args(call.argv),
                             !.status = "parsed" ]
    /\ goto("ui", "args_parsed")
    /\ UNCHANGED << lanes, queue_lock, system >>

\* main.c:672-675: the help text is printed and main returns 0
ArgsHelp ==
    /\ pc.ui = "args_parsed"
    /\ call.args.help_requested
    /\ call' = [ call EXCEPT !.status = "help_exit" ]
    /\ goto("ui", "exit")
    /\ UNCHANGED << lanes, queue_lock, system >>

\* main.c:677: startup goes on with the validated values
ArgsValidate ==
    /\ pc.ui = "args_parsed"
    /\ ~ call.args.help_requested
    /\ call' = [ call EXCEPT !.args = validate_command_line_args(call.args),
                             !.status = "started" ]
    /\ goto("ui", "args_valid")
    /\ UNCHANGED << lanes, queue_lock, system >>

ArgsNext == ArgsParse \/ ArgsHelp \/ ArgsValidate

SpecArgs == ArgsInit /\ [][ArgsNext]_vars

\* ------------------------------------------------------ aging-SJF driver
\* the lanes after schedule_next_lane has switched from lane from to lane n
switched_lanes(ls, from, n) ==
    IF needs_context_switch(n, from)
    THEN [ i \in Lanes |->
             IF i = n THEN context_switch_to(ls[i])
             ELSE IF i = from THEN context_switch_from(ls[i])
             ELSE ls[i] ]
    ELSE ls

\* the lane after execute_lane_time_slice
sliced_lane(lane) ==
    time_slice_end(IF lane.queue_length > 0 THEN remove_vehicle_from_lane(lane) ELSE lane)

\* lane i is READY with a vehicle and the decision for lane n leaves it out
passed_over(ls, i, n) ==
    /\ n \in Lanes \ { i }
    /\ ls[i].state = READY
    /\ ls[i].queue_length > 0

AgingInit ==
    /\ lanes = InitLanes
    /\ scheduler = InitScheduler(SJF)
    /\ pc = [ sim |-> "aging_cycles", gen |-> "done", ui |-> "done" ]
    /\ now = 0
    /\ call = [ fn |-> "aging", status |-> "idle", result |-> -1, count |-> 0,
                arrivals |-> 0, passed |-> [ i \in Lanes |-> 0 ] ]
    /\ InitRest

\* one cycle of the generator: a vehicle for lane i and the wake-up
AgingArrive ==
    /\ call.arrivals < MaxAgingArrivals
    /\ \E i \in 0 .. MaxArrivalLane :
          lanes' = [ lanes EXCEPT ![i] =
                       generator_wake(add_vehicle_to_lane(@, call.arrivals, now)) ]
    /\ call' = [ call EXCEPT !.arrivals = @ + 1 ]
    /\ UNCHANGED << queue_lock, pc, system >>

\* process_traffic_events with the aging policy: the decision, the context
\* switch and the time slice of the chosen lane
AgingCycle ==
    /\ call.count < MaxAgingCycles
    /\ LET n == schedule_next_lane_sjf_with_aging(policy_snapshot)
           switched == switched_lanes(lanes, scheduler.current_lane, n)
       IN  /\ lanes' = IF n = -1 THEN lanes
                       ELSE [ switched EXCEPT ![n] = sliced_lane(@) ]
           /\ scheduler' = [ scheduler EXCEPT !.current_lane =
                               IF needs_context_switch(n, @) THEN n ELSE @ ]
           /\ call' = [ call EXCEPT
                          !.status = "returned", !.result = n, !.count = @ + 1,
                          !.passed = [ i \in Lanes |->
                                         IF passed_over(lanes, i, n)
                                         THEN call.passed[i] + 1 ELSE 0 ] ]
    /\ UNCHANGED << queue_lock, pc, scheduler_lock, global_state_lock, metrics,
                    simulation_running, simulation_paused, keep_running,
                    total_vehicles_generated, now, sim, gen, ui, threads,
                    destroyed, emergency, violation_recorded >>

AgingNext == AgingArrive \/ AgingCycle

SpecAging == AgingInit /\ [][AgingNext]_vars

\* ------------------------------------------------------- SJF service driver
\* the generator and the simulation thread of a running, unpaused system
\* under SJF, one whole loop iteration at a time
ServiceInit ==
    /\ lanes = InitLanes
    /\ scheduler = InitScheduler(SJF)
    /\ pc = [ sim |-> "service_cycles", gen |-> "service_arrivals", ui |-> "done" ]
    /\ now = 0
    /\ call = [ fn |-> "sjf", status |-> "idle", result |-> -1, arrivals |-> 0 ]
    /\ InitRest

\* one iteration of vehicle_generator_loop: a vehicle for lane i and the
\* wake-up of the lane
ServiceArrive ==
    /\ call.arrivals < MaxServiceArrivals
    /\ \E i \in Lanes :
          lanes' = [ lanes EXCEPT ![i] =
                       generator_wake(add_vehicle_to_lane(@, call.arrivals, now)) ]
    /\ call' = [ call EXCEPT !.arrivals = @ + 1 ]
    /\ UNCHANGED << queue_lock, pc, system >>

\* one iteration of simulation_main_loop: process_traffic_events asks SJF
\* for a lane, switches to it and runs its time slice
ServiceCycle ==
    /\ LET n == schedule_next_lane_sjf(policy_snapshot, now)
           switched == switched_lanes(lanes, scheduler.current_lane, n)
       IN  /\ lanes' = IF n = -1 THEN lanes
                       ELSE [ switched EXCEPT ![n] = sliced_lane(@) ]
           /\ scheduler' = [ scheduler EXCEPT !.current_lane =
                               IF needs_context_switch(n, @) THEN n ELSE @ ]
           /\ call' = [ call EXCEPT !.status = "returned", !.result = n ]
    /\ UNCHANGED << queue_lock, pc, scheduler_lock, global_state_lock, metrics,
                    simulation_running, simulation_paused, keep_running,
                    total_vehicles_generated, now, sim, gen, ui, threads,
                    destroyed, emergency, violation_recorded >>

ServiceNext == ServiceArrive \/ ServiceCycle

\* the simulation thread is scheduled fairly: it sleeps for
\* SIMULATION_UPDATE_INTERVAL and runs its next iteration
SpecService == ServiceInit /\ [][ServiceNext]_vars /\ WF_vars(ServiceCycle)

\* ------------------------------------------------------- lane-loop driver
\* lane_process_thread run on lane call.lane, step by step; the thread is
\* "sim" in queue_lock. The lane starts in any state the scheduler can have
\* put it in.
LoopLane(i, st, n) ==
    [ init_lane_process(i, MaxLoopCapacity, 0) EXCEPT
        !.queue = [ k \in 1 .. n |-> k ],
        !.queue_length = n,
        !.state = st ]

LoopInit ==
    /\ \E i \in Lanes, st \in { WAITING, READY, RUNNING }, n \in 0 .. MaxLoopCapacity :
          /\ st = WAITING => n = 0
          /\ st = READY => n > 0
          /\ lanes = [ InitLanes EXCEPT ![i] = LoopLane(i, st, n) ]
          /\ call = [ fn |-> "lane_process_thread", status |-> "idle", lane |-> i,
                      iterations |-> 0, max_batch |-> 0, i |-> 0, batch_count |-> 0 ]
    /\ scheduler = InitScheduler(SJF)
    /\ pc = [ sim |-> "loop_lock", gen |-> "done", ui |-> "done" ]
    /\ now = 0
    /\ InitRest

\* while (true) { pthread_mutex_lock(&lane->queue_lock);
LoopLock ==
    /\ pc.sim = "loop_lock" /\ call.iterations < MaxLoopIterations
    /\ queue_lock[call.lane] = FREE
    /\ queue_lock' = [ queue_lock EXCEPT ![call.lane] = "sim" ]
    /\ goto("sim", "loop_arrival")
    /\ UNCHANGED << lanes, call, system >>

\* rand() % 10 is not 0: no vehicle arrives in this iteration
LoopNoArrival ==
    /\ pc.sim = "loop_arrival"
    /\ goto("sim", "loop_state")
    /\ UNCHANGED << lanes, queue_lock, call, system >>

\* add_vehicle_to_lane or remove_vehicle_from_lane locks the queue_lock the
\* loop holds, and the lock never returns
LoopRelockHangs ==
    /\ \/ pc.sim = "loop_arrival"
       \/ pc.sim = "loop_batch" /\ call.i < call.max_batch
    /\ queue_lock[call.lane] = "sim"
    /\ call' = [ call EXCEPT !.status = "deadlocked" ]
    /\ goto("sim", "blocked")
    /\ UNCHANGED << lanes, queue_lock, system >>

\* add_vehicle_to_lane(lane, vehicle_id) where the lock call returns: the
\* vehicle is added and the unlock at the end of the function releases the
\* queue_lock
LoopArrival ==
    /\ pc.sim = "loop_arrival"
    /\ lanes' = [ lanes EXCEPT ![call.lane] =
                    add_vehicle_to_lane(@, MaxLoopCapacity + 1 + call.iterations, now) ]
    /\ queue_lock' = [ queue_lock EXCEPT ![call.lane] = FREE ]
    /\ goto("sim", "loop_state")
    /\ UNCHANGED << call, system >>

\* the lane after the state update of the loop
loop_state_update(lane) ==
    IF lane.queue_length > 0 /\ lane.state = WAITING
    THEN [ lane EXCEPT !.state = READY ]
    ELSE IF lane.queue_length = 0 /\ lane.state # RUNNING
    THEN [ lane EXCEPT !.state = WAITING ]
    ELSE lane

max_batch(lane) ==
    IF lane.queue_length < BATCH_EXIT_SIZE THEN lane.queue_length ELSE BATCH_EXIT_SIZE

\* the state update; a RUNNING lane goes on to its batch
LoopState ==
    /\ pc.sim = "loop_state"
    /\ lanes' = [ lanes EXCEPT ![call.lane] = loop_state_update(@) ]
    /\ IF lanes'[call.lane].state = RUNNING
       THEN /\ call' = [ call EXCEPT !.max_batch = max_batch(lanes[call.lane]),
                                     !.i = 0, !.batch_count = 0 ]
            /\ goto("sim", "loop_batch")
       ELSE /\ call' = call
            /\ goto("sim", "loop_wait")
    /\ UNCHANGED << queue_lock, system >>

\* one round of the batch loop where the lock call of
\* remove_vehicle_from_lane returns: its unlock releases the queue_lock
LoopRemove ==
    /\ pc.sim = "loop_batch" /\ call.i < call.max_batch
    /\ LET vehicle_id == removed_vehicle(lanes[call.lane])
       IN  /\ lanes' = [ lanes EXCEPT ![call.lane] =
                           IF vehicle_id # -1
                           THEN [ remove_vehicle_from_lane(@) EXCEPT
                                    !.total_vehicles_served = @ + 1 ]
                           ELSE remove_vehicle_from_lane(@) ]
           /\ call' = [ call EXCEPT !.i = @ + 1,
                                    !.batch_count = IF vehicle_id # -1 THEN @ + 1 ELSE @ ]
    /\ queue_lock' = [ queue_lock EXCEPT ![call.lane] = FREE ]
    /\ UNCHANGED << pc, system >>

\* after the batch: with batch_count > 0 the lock is released for the
\* crossing time and taken again
LoopBatchEnd ==
    /\ pc.sim = "loop_batch" /\ call.i >= call.max_batch
    /\ queue_lock' = IF call.batch_count > 0
                     THEN [ queue_lock EXCEPT ![call.lane] = "sim" ]
                     ELSE queue_lock
    /\ goto("sim", "loop_wait")
    /\ UNCHANGED << lanes, call, system >>

\* the waiting time of a READY or WAITING lane grows; signal, unlock, sleep
LoopWait ==
    /\ pc.sim = "loop_wait"
    /\ lanes' = [ lanes EXCEPT ![call.lane] =
                    IF @.state \in { READY, WAITING }
                    THEN [ @ EXCEPT !.waiting_time = @ + 1, !.total_waiting_time = @ + 1 ]
                    ELSE @ ]
    /\ queue_lock' = [ queue_lock EXCEPT ![call.lane] = FREE ]
    /\ call' = [ call EXCEPT !.iterations = @ + 1 ]
    /\ goto("sim", "loop_lock")
    /\ UNCHANGED system

LoopNext ==
    \/ LoopLock \/ LoopNoArrival \/ LoopRelockHangs \/ LoopArrival
    \/ LoopState \/ LoopRemove \/ LoopBatchEnd \/ LoopWait

SpecLoop == LoopInit /\ [][LoopNext]_vars

\* ------------------------------------------------------ validation driver
\* validate_single_lane_running called on lanes in any combination of
\* states, while other threads hold and release lane queue_locks
ValidateInit ==
    /\ \E st \in [ Lanes -> { WAITING, READY, RUNNING } ] :
          lanes = [ i \in Lanes |-> [ InitLanes[i] EXCEPT !.state = st[i] ] ]
    /\ scheduler = InitScheduler(SJF)
    /\ pc = [ sim |-> "validate_calls", gen |-> "validate_locks", ui |-> "done" ]
    /\ now = 0
    /\ call = [ fn |-> "validate_single_lane_running", status |-> "idle",
                result |-> TRUE, locks |-> [ i \in Lanes |-> FREE ] ]
    /\ InitRest

\* another thread takes or gives back the queue_lock of lane i
ValidateOtherThread ==
    /\ \E i \in Lanes :
          queue_lock' = [ queue_lock EXCEPT ![i] = IF @ = FREE THEN "gen" ELSE FREE ]
    /\ call' = [ call EXCEPT !.status = "idle" ]
    /\ UNCHANGED << lanes, pc, system >>

\* validate_single_lane_running(lanes)
ValidateCall ==
    /\ call.status = "idle"
    /\ call' = [ call EXCEPT !.status = "returned",
                             !.result = validate_single_lane_running(lanes, queue_lock),
                             !.locks = queue_lock ]
    /\ UNCHANGED << lanes, queue_lock, pc, system >>

ValidateNext == ValidateOtherThread \/ ValidateCall

SpecValidate == ValidateInit /\ [][ValidateNext]_vars

\* ------------------------------------------------------ help-screen driver
\* handle_user_input called by the main thread, key after key. ch is the
\* value of wgetch: ERR when no key is pressed.
ERR == "ERR"

Keys == { ERR, "q", " ", "1", "2", "3", "e", "h", "x" }

\* show_help, pause_requested and the fields of the system that
\* handle_user_input reads and writes
input_state ==
    [ show_help |-> call.show_help,
      pause_requested |-> call.pause_requested,
      simulation_paused |-> simulation_paused,
      keep_running |-> keep_running,
      algorithm |-> scheduler.algorithm,
      current_lane |-> scheduler.current_lane ]

\* the branch taken while the help screen is shown
close_help(st, ch) ==
    IF ch # ERR
    THEN [ st EXCEPT !.show_help = FALSE,
                     !.simulation_paused = st.pause_requested,
                     !.pause_requested = FALSE ]
    ELSE st

\* variant: 'h' pauses the simulation and does not store that it was paused
open_help_forgetting_pause(st) ==
    [ st EXCEPT !.show_help = TRUE, !.simulation_paused = TRUE ]

\* case 'h'
open_help(st) ==
    IF st.simulation_paused
    THEN [ st EXCEPT !.show_help = TRUE, !.pause_requested = TRUE ]
    ELSE [ st EXCEPT !.show_help = TRUE, !.simulation_paused = TRUE,
                     !.pause_requested = FALSE ]

\* the state after handle_user_input has read ch; set_scheduling_algorithm
\* finds scheduler_lock free
handle_user_input(st, ch) ==
    IF st.show_help THEN close_help(st, ch)
    ELSE CASE ch = "q" -> [ st EXCEPT !.keep_running = FALSE ]
           [] ch = " " -> [ st EXCEPT !.simulation_paused = ~ st.simulation_paused ]
           [] ch = "1" -> [ st EXCEPT !.algorithm = SJF, !.current_lane = -1 ]
           [] ch = "2" -> [ st EXCEPT !.algorithm = MULTILEVEL_FEEDBACK, !.current_lane = -1 ]
           [] ch = "3" -> [ st EXCEPT !.algorithm = PRIORITY_ROUND_ROBIN, !.current_lane = -1 ]
           [] ch = "h" -> open_help(st)
           [] OTHER -> st

\* a started simulation, paused or not, with the help screen closed;
\* call.paused_at_open is simulation_paused as it was when 'h' was read
HelpInit ==
    /\ lanes = InitLanes
    /\ scheduler = InitScheduler(SJF)
    /\ pc = [ sim |-> "done", gen |-> "done", ui |-> "help_keys" ]
    /\ now = 0
    /\ call = [ fn |-> "handle_user_input", status |-> "idle", ch |-> ERR, count |-> 0,
                show_help |-> FALSE, pause_requested |-> FALSE,
                paused_at_open |-> FALSE ]
    /\ queue_lock = [ i \in Lanes |-> FREE ]
    /\ scheduler_lock = FREE
    /\ global_state_lock = FREE
    /\ metrics = InitMetrics
    /\ simulation_running = TRUE
    /\ simulation_paused \in BOOLEAN
    /\ keep_running = TRUE
    /\ total_vehicles_generated = 0
    /\ sim = InitSim
    /\ gen = InitGen
    /\ ui = InitUi
    /\ threads = [ simulation_thread |-> TRUE, vehicle_generator_thread |-> TRUE ]
    /\ destroyed = FALSE
    /\ emergency = NoEmergency
    /\ violation_recorded = FALSE

\* handle_user_input(viz) with the key ch
HelpKey ==
    /\ call.count < MaxHelpKeys
    /\ \E ch \in Keys :
          LET st == handle_user_input(input_state, ch)
          IN  /\ simulation_paused' = st.simulation_paused
              /\ keep_running' = st.keep_running
              /\ scheduler' = [ scheduler EXCEPT !.algorithm = st.algorithm,
                                                 !.current_lane = st.current_lane ]
              /\ lanes' = IF ch \in { "1", "2", "3" } /\ ~ call.show_help
                          THEN [ i \in Lanes |-> reset_running_lane(lanes[i]) ]
                          ELSE lanes
              /\ call' = [ call EXCEPT
                             !.status = "returned", !.ch = ch, !.count = @ + 1,
                             !.show_help = st.show_help,
                             !.pause_requested = st.pause_requested,
                             !.paused_at_open =
                                 IF ~ call.show_help /\ st.show_help
                                 THEN simulation_paused ELSE @ ]
    /\ UNCHANGED << queue_lock, scheduler_lock, global_state_lock, metrics,
                    simulation_running, total_vehicles_generated, now, pc, sim, gen,
                    ui, threads, destroyed, emergency, violation_recorded >>

HelpNext == HelpKey

SpecHelp == HelpInit /\ [][HelpNext]_vars

\* ================================================================ properties
running_lanes == { i \in Lanes : lanes[i].state = RUNNING }

ready_snapshot_lanes == { i \in Lanes : lanes[i].state = READY }

estimated_time(i) == lanes[i].queue_length * VEHICLE_CROSS_TIME

\* C1: while the simulation is started (simulation_running), whatever the
\* interleaving of scheduler ticks, vehicle arrivals and policy changes, at
\* most one of the four lanes is RUNNING.
C1_AtMostOneLaneRunning ==
    simulation_running => Cardinality(running_lanes) <= 1

\* a lane is RUNNING in the started simulation after a policy change, with a
\* vehicle arriving
C1_Witness ==
    /\ simulation_running
    /\ Cardinality(running_lanes) = 1
    /\ scheduler.algorithm # SJF
    /\ pc.gen = "g_wake"
    /\ pc.sim = "s_schedule_unlock"

\* C2: an emergency added for lane X while another lane Y is RUNNING makes
\* the next schedule_next_lane call end with X RUNNING, current_lane = X and
\* Y demoted to READY (queue not empty) or WAITING (queue empty).
C2_EmergencyPreemptsWithinOneCycle ==
    (pc.sim = "s_schedule_unlock" /\ emergency.cycle = 2) =>
        /\ lanes[emergency.lane].state = RUNNING
        /\ scheduler.current_lane = emergency.lane
        /\ lanes[emergency.from].state =
              IF lanes[emergency.from].queue_length > 0 THEN READY ELSE WAITING

\* C3: schedule_next_lane_sjf returns a READY lane of minimum cost
\* queue_length * VEHICLE_CROSS_TIME, and no READY lane of the same cost has
\* an earlier arrival time than the lane returned.
C3_SjfMinimumCostEarliestArrival ==
    (call.fn = "sjf" /\ call.status = "returned" /\ ready_snapshot_lanes # {}) =>
        /\ call.result \in ready_snapshot_lanes
        /\ \A j \in ready_snapshot_lanes :
              /\ estimated_time(call.result) <= estimated_time(j)
              /\ estimated_time(j) = estimated_time(call.result) =>
                    lanes[call.result].last_arrival_time <= lanes[j].last_arrival_time

\* two READY lanes of equal minimum cost, the later one arrived earlier and
\* is returned
C3_Witness ==
    /\ call.fn = "sjf" /\ call.status = "returned"
    /\ call.result \in ready_snapshot_lanes
    /\ \E i \in ready_snapshot_lanes :
          /\ i < call.result
          /\ lanes[i].queue_length = lanes[call.result].queue_length
          /\ lanes[i].last_arrival_time > lanes[call.result].last_arrival_time

\* C4: each of the five policies returns -1 or a lane that is READY, and it
\* returns -1 exactly when no lane is READY.
C4_PolicyReturnsReadyLaneOrNone ==
    call.status = "returned" =>
        /\ call.result = -1 \/ call.result \in ready_snapshot_lanes
        /\ call.result = -1 <=> ready_snapshot_lanes = {}

\* the enhanced policy passes over a RUNNING lane with a shorter queue
C4_Witness ==
    /\ call.fn = "enhanced" /\ call.status = "returned"
    /\ call.result \in ready_snapshot_lanes
    /\ \E i \in Lanes :
          /\ lanes[i].state = RUNNING
          /\ lanes[i].queue_length < lanes[call.result].queue_length

\* the call of schedule_next_lane in progress found a result other than
\* current_lane
result_differs == pc.sim = "s_schedule_unlock" /\ sim.next_lane # sim.from_lane

\* C5 as stated: whenever the policy result differs from current_lane, the
\* call ends with the previous lane READY (queue not empty) or WAITING (queue
\* empty), the result RUNNING with waiting_time = 0 and current_lane = result.
C5_SwitchWheneverResultDiffers ==
    result_differs =>
        /\ sim.next_lane \in Lanes
        /\ lanes[sim.next_lane].state = RUNNING
        /\ lanes[sim.next_lane].waiting_time = 0
        /\ scheduler.current_lane = sim.next_lane
        /\ sim.from_lane \in Lanes =>
              lanes[sim.from_lane].state =
                  IF lanes[sim.from_lane].queue_length > 0 THEN READY ELSE WAITING

\* C5 amended: whenever the policy result is a lane (not -1) other than
\* current_lane, context_switch turns a previous lane that is RUNNING into
\* READY (queue not empty) or WAITING (queue empty), and the call ends with
\* the result RUNNING with waiting_time = 0 and current_lane = result.
C5_SwitchWhenResultIsAnotherLane ==
    [][ /\ ( /\ pc.sim = "s_switch_from" /\ pc'.sim = "s_switch_to"
             /\ sim.from_lane \in Lanes
             /\ lanes[sim.from_lane].state = RUNNING )
          => lanes'[sim.from_lane].state =
                IF lanes[sim.from_lane].queue_length > 0 THEN READY ELSE WAITING
        /\ ( /\ pc.sim # "s_schedule_unlock" /\ pc'.sim = "s_schedule_unlock"
             /\ sim'.next_lane # -1
             /\ sim'.next_lane # sim'.from_lane )
          => /\ pc.sim = "s_switch_sleep"
             /\ lanes'[sim'.next_lane].state = RUNNING
             /\ lanes'[sim'.next_lane].waiting_time = 0
             /\ scheduler'.current_lane = sim'.next_lane ]_vars

\* a switch from a RUNNING lane with vehicles left to another lane has ended
C5_Witness ==
    /\ result_differs
    /\ sim.next_lane \in Lanes /\ sim.from_lane \in Lanes
    /\ scheduler.current_lane = sim.next_lane
    /\ lanes[sim.next_lane].state = RUNNING
    /\ lanes[sim.from_lane].state = READY

\* C6: when validate_single_lane_running finds more than one RUNNING lane
\* after a context switch, schedule_next_lane records the violation.
C6_ViolationIsRecorded ==
    (pc.sim = "s_schedule_unlock" /\ ~sim.valid) => violation_recorded

\* C7: a thread takes global_state_lock only while it holds no lane
\* queue_lock, and gives it back only after it has given back every lane
\* queue_lock.
C7_MetricsLockBeforeLaneLock ==
    [][ \A t \in Threads :
          /\ (global_state_lock # t /\ global_state_lock' = t) => held_lane_locks(t) = {}
          /\ (global_state_lock = t /\ global_state_lock' # t) => held_lane_locks(t) = {}
      ]_vars

\* the simulation thread holds global_state_lock and a lane queue_lock
C7_Witness ==
    /\ global_state_lock = "sim"
    /\ held_lane_locks("sim") # {}
    /\ pc.gen = "g_count"

\* C8: at its sleeps for the context-switch overhead and for the crossing
\* time a thread holds no scheduler_lock, global_state_lock or queue_lock.
C8_NoLockHeldWhileSleeping ==
    pc.sim \in {"s_switch_sleep", "s_slice_cross"} => held_locks("sim") = {}

\* C9: the shared state is freed only after the simulation thread and the
\* generator thread have ended and have been joined.
C9_DestroyAfterJoin ==
    destroyed =>
        /\ pc.sim = "done" /\ pc.gen = "done"
        /\ ~threads.simulation_thread /\ ~threads.vehicle_generator_thread

\* C10: 0 <= queue_length <= max_queue_length for every lane; an add to a
\* full lane leaves queue, queue_length and last_arrival_time as they were;
\* a remove from an empty lane returns -1 and leaves queue_length at 0.
C10_QueueLengthWithinCapacity ==
    /\ \A i \in Lanes :
          /\ 0 <= lanes[i].queue_length
          /\ lanes[i].queue_length <= lanes[i].max_queue_length
          /\ lanes[i].queue_length = get_size(lanes[i].queue)
    /\ (call.fn = "add" /\ call.before.queue_length = call.before.max_queue_length) =>
          /\ lanes[call.lane].queue = call.before.queue
          /\ lanes[call.lane].queue_length = call.before.queue_length
          /\ lanes[call.lane].last_arrival_time = call.before.last_arrival_time
    /\ (call.fn = "remove" /\ call.before.queue_length = 0) =>
          /\ call.result = -1
          /\ lanes[call.lane].queue_length = 0

\* an add to a full lane at a later time than its last arrival, while
\* another lane is empty
C10_Witness ==
    /\ call.fn = "add"
    /\ call.before.queue_length = call.before.max_queue_length
    /\ now > call.before.last_arrival_time
    /\ \E i \in Lanes : lanes[i].queue_length = 0


\* C11: whenever a lane's queue_lock is not held, the lane's cached
\* queue_length equals the number of vehicles in its queue (enqueue and
\* dequeue refresh the cached length inside the critical section that
\* changes the queue).
C11_CachedLengthMatchesQueue ==
    \A i \in Lanes :
        queue_lock[i] = FREE => lanes[i].queue_length = get_size(lanes[i].queue)

\* a lane that has received and released vehicles, seen with its lock free
C11_Witness ==
    \E i \in Lanes :
        /\ queue_lock[i] = FREE
        /\ metrics.lane_throughput[i] >= 1
        /\ lanes[i].queue_length >= 1
        /\ lanes[i].queue_length = get_size(lanes[i].queue)


\* C12: every change of a lane's state is one of the allowed transitions:
\* WAITING -> READY with a non-empty queue, READY -> RUNNING made by the
\* scheduler's context switch, RUNNING -> READY with a non-empty queue,
\* RUNNING -> WAITING with an empty queue, or any -> BLOCKED; a lane enters
\* RUNNING only in the to_lane step of context_switch.
C12_OnlyAllowedTransitions ==
    [][ \A i \in Lanes :
          lanes'[i].state # lanes[i].state =>
             /\ \/ /\ lanes[i].state = WAITING /\ lanes'[i].state = READY
                   /\ get_size(lanes'[i].queue) > 0
                \/ /\ lanes[i].state = READY /\ lanes'[i].state = RUNNING
                \/ /\ lanes[i].state = RUNNING /\ lanes'[i].state = READY
                   /\ get_size(lanes'[i].queue) > 0
                \/ /\ lanes[i].state = RUNNING /\ lanes'[i].state = WAITING
                   /\ get_size(lanes'[i].queue) = 0
                \/ lanes'[i].state = BLOCKED
             /\ lanes'[i].state = RUNNING =>
                   /\ pc.sim = "s_switch_to" /\ pc'.sim = "s_switch_sleep"
                   /\ i = sim.next_lane
      ]_vars


\* C13: a successful enqueue of vehicle id by the generator appends id to
\* the lane's queue and sets last_arrival_time; the wake-up that follows
\* leaves a WAITING lane READY and leaves a READY or RUNNING lane in the
\* state it has.
C13_EnqueuePromotesWaitingLane ==
    [][ /\ ( /\ pc.gen = "g_add" /\ pc'.gen = "g_wake"
             /\ enqueue_ok(lanes[gen.lane_idx].queue,
                           lanes[gen.lane_idx].max_queue_length) )
           => /\ lanes'[gen.lane_idx].queue
                    = Append(lanes[gen.lane_idx].queue, gen.new_vehicle_id)
              /\ lanes'[gen.lane_idx].last_arrival_time = now
              /\ lanes'[gen.lane_idx].state = lanes[gen.lane_idx].state
        /\ (pc.gen = "g_wake" /\ pc'.gen = "g_loop")
           => lanes'[gen.lane_idx].state
                 = IF lanes[gen.lane_idx].state = WAITING THEN READY
                   ELSE lanes[gen.lane_idx].state
      ]_vars

\* the generator is back at its loop top; one lane received a vehicle while
\* RUNNING and is still RUNNING, another was WAITING and is now READY
C13_Witness ==
    \E i, j \in Lanes :
        /\ pc.gen = "g_loop"
        /\ lanes[i].state = READY /\ get_size(lanes[i].queue) >= 1
        /\ lanes[i].last_arrival_time >= 1
        /\ lanes[j].state = RUNNING /\ get_size(lanes[j].queue) >= 1
        /\ lanes[j].last_arrival_time >= 1


\* C14: every call of execute_lane_time_slice appends one ExecutionRecord to
\* the execution history, whatever the other threads are doing with
\* scheduler_lock: at the end of a slice its record has been written.
C14_EverySliceIsRecorded ==
    pc.sim = "s_slice_end2" => sim.recorded


\* C15: the execution history is a ring buffer of capacity C = history_size:
\* after n successful record_execution calls it holds the most recent
\* min(n, C) records, history_index stays in 0 .. C-1, and
\* get_execution_history / print_execution_history, once they have
\* scheduler_lock, report a record count of min(n, C).
C15_HistoryReportsRecentRecords ==
    LET n == Len(call.written)
        k == IF n < history_size THEN n ELSE history_size
    IN  pc.sim = "history_calls" =>
          /\ scheduler.history_index \in 0 .. (history_size - 1)
          /\ \A j \in 1 .. k :
                scheduler.execution_history[(n - j) % history_size]
                   = call.written[n - j + 1]
          /\ ( /\ call.fn \in {"get_execution_history", "print_execution_history"}
               /\ call.locked )
             => call.result = k


\* C16: the switch counters (scheduler.total_context_switches and the
\* context-switch count of the metrics) equal the number of context switches
\* schedule_next_lane has performed: each context switch adds exactly one to
\* both, and nothing else changes them.
C16_EverySwitchIsCounted ==
    [][ IF pc.sim = "s_switch_sleep" /\ pc'.sim = "s_schedule_unlock"
        THEN /\ scheduler'.total_context_switches = scheduler.total_context_switches + 1
             /\ metrics'.context_switches = metrics.context_switches + 1
        ELSE /\ scheduler'.total_context_switches = scheduler.total_context_switches
             /\ metrics'.context_switches = metrics.context_switches
      ]_vars


\* C17: every setPolicy command takes effect: when
\* set_scheduling_algorithm(scheduler, a) returns, scheduler.algorithm = a,
\* whatever the simulation thread is doing at the moment of the call.
C17_SetPolicyTakesEffect ==
    pc.ui = "m_set_return" => scheduler.algorithm = ui.algorithm


\* C18: pause is idempotent: a second pause_traffic_simulation right after a
\* first changes nothing, so two pauses leave the system in the state one
\* pause leaves it in, and a following resume_traffic_simulation leaves
\* simulation_paused false whether one pause or two came before.
C18_PauseIsIdempotent ==
    [][ /\ (call.fn = "pause" /\ call'.fn = "pause")
           => /\ simulation_paused /\ simulation_paused'
              /\ UNCHANGED << lanes, queue_lock, scheduler, scheduler_lock,
                              global_state_lock, metrics, simulation_running,
                              keep_running, total_vehicles_generated, now, pc,
                              sim, gen, ui, threads, destroyed, emergency,
                              violation_recorded >>
        /\ (call.fn = "pause" /\ call'.fn = "resume") => ~simulation_paused'
      ]_vars

\* two pauses and then a resume have been called on a running simulation
C18_Witness ==
    /\ pc.sim = "pause_calls"
    /\ Len(call.calls) >= 3
    /\ SubSeq(call.calls, Len(call.calls) - 2, Len(call.calls))
          = << "pause", "pause", "resume" >>
    /\ ~simulation_paused


\* C19: while the simulation is paused (from the pause until the resume, no
\* other user command in between) no lane's state, queue, waiting_time or
\* counters change and scheduler.current_lane does not change.
C19_NothingMovesWhilePaused ==
    [][ ( /\ simulation_paused /\ simulation_paused'
          /\ keep_running /\ keep_running'
          /\ simulation_running /\ simulation_running'
          /\ ui'.keys = ui.keys )
        => /\ \A i \in Lanes :
                /\ lanes'[i].state = lanes[i].state
                /\ lanes'[i].queue = lanes[i].queue
                /\ lanes'[i].queue_length = lanes[i].queue_length
                /\ lanes'[i].waiting_time = lanes[i].waiting_time
                /\ lanes'[i].total_vehicles_served = lanes[i].total_vehicles_served
                /\ lanes'[i].total_waiting_time = lanes[i].total_waiting_time
           /\ scheduler'.current_lane = scheduler.current_lane
      ]_vars


\* C20: draw_lanes_window and draw_metrics_window take each lane queue_lock
\* and global_state_lock only by a non-blocking attempt; when the attempt
\* fails they show the last value observed for the item (the statics are
\* left as they are), and they never wait for a lock held by the simulation
\* or generator thread.
C20_DashboardNeverWaits ==
    [][ /\ pc'.ui \notin {"d_lane_wait", "d_emergency_wait", "d_metrics_wait"}
        /\ \A i \in Lanes :
              (queue_lock'[i] = "ui" /\ queue_lock[i] # "ui")
                 => pc.ui = "d_lane" /\ ui.i = i /\ queue_lock[i] = FREE
        /\ (global_state_lock' = "ui" /\ global_state_lock # "ui")
              => pc.ui \in {"d_emergency", "d_metrics"} /\ global_state_lock = FREE
        /\ (pc.ui = "d_lane" /\ ui' # ui /\ queue_lock[ui.i] # FREE)
              => /\ ui'.frame[ui.i] = cached_lane(ui, ui.i)
                 /\ ui'.last_queues = ui.last_queues
                 /\ ui'.last_waits = ui.last_waits
                 /\ ui'.last_states = ui.last_states
                 /\ pc'.ui = after_lane(ui.i)
        /\ (pc.ui \in {"d_emergency", "d_metrics"} /\ ui' # ui /\ global_state_lock # FREE)
              => /\ ui'.last_metrics = ui.last_metrics
                 /\ ui'.last_emergency_mode = ui.last_emergency_mode
                 /\ pc'.ui = IF pc.ui = "d_emergency" THEN "d_metrics" ELSE "d_lane"
      ]_vars

\* another thread holds a lane's lock and has changed the lane; the attempt
\* on that lane has just failed and the frame shows the queue length observed
\* in an earlier frame
C20_Witness ==
    /\ pc.ui = "d_lane" /\ ui.attempt = "busy" /\ ui.i >= 1
    /\ queue_lock[ui.i - 1] \in {"sim", "gen"}
    /\ ui.frame[ui.i - 1].queue = ui.last_queues[ui.i - 1]
    /\ ui.last_queues[ui.i - 1] >= 1
    /\ lanes[ui.i - 1].queue_length # ui.last_queues[ui.i - 1]


\* some order in which every lane can finish: each lane in turn needs no
\* more than what is available once the lanes before it have released
can_all_finish(ls) ==
    \E a, b, c, d \in Lanes :
        /\ {a, b, c, d} = Lanes
        /\ ls[a].requested_quadrants <= available(ls)
        /\ ls[b].requested_quadrants <= available(ls) + ls[a].allocated_quadrants
        /\ ls[c].requested_quadrants
              <= available(ls) + ls[a].allocated_quadrants + ls[b].allocated_quadrants
        /\ ls[d].requested_quadrants
              <= available(ls) + ls[a].allocated_quadrants + ls[b].allocated_quadrants
                    + ls[c].allocated_quadrants

\* C21: requestQuadrants(lane, n) commits a grant only when n <= available
\* and every lane can finish in the state after the grant; a denied request
\* leaves every allocation unchanged.
C21_GrantOnlyIntoSafeState ==
    (pc.sim = "allocator_calls" /\ call.fn = "request") =>
        /\ call.result = "granted" =>
              /\ call.n <= available(call.before)
              /\ available(lanes) = available(call.before) - call.n
              /\ can_all_finish(lanes)
        /\ call.result = "denied" =>
              \A i \in Lanes :
                 lanes[i].allocated_quadrants = call.before[i].allocated_quadrants

\* lane 0 requests 3 and is granted (available 1), lane 1 requests 2 and is
\* denied, lane 0 releases (available 4), lane 1 retries 2 and is granted
C21_Witness ==
    /\ pc.sim = "allocator_calls"
    /\ call.log = << << "request", 0, 3, "granted" >>, << "request", 1, 2, "denied" >>,
                     << "release", 0, 0, "released" >>, << "request", 1, 2, "granted" >> >>
    /\ available(lanes) = 2


\* C22: for every lane, allocated_quadrants + requested_quadrants never
\* exceeds the total number of quadrants, also after
\* request_intersection_quadrants(lane, n); release_intersection_quadrants
\* leaves both fields at 0.
C22_AllocationPlusRequestWithinTotal ==
    pc.sim = "allocator_calls" =>
        /\ \A i \in Lanes :
              lanes[i].allocated_quadrants + lanes[i].requested_quadrants
                 <= TOTAL_QUADRANTS
        /\ call.fn = "release" =>
              /\ lanes[call.lane].allocated_quadrants = 0
              /\ lanes[call.lane].requested_quadrants = 0


\* lanes whose quadrant fields or state differ from what they were before the sweep
swept_lanes == { i \in Lanes : lanes[i] # call.before[i] }

\* the sweep ran on a state in which BLOCKED lanes form a wait-for cycle
swept_a_cycle ==
    /\ pc.sim = "detector_calls"
    /\ call.fn = "detect"
    /\ has_cycle(call.before)

\* exactly one lane, which was BLOCKED on the cycle and held quadrants, has
\* had its quadrants released and is in state WAITING
one_victim_released ==
    \E v \in Lanes :
        /\ swept_lanes = { v }
        /\ on_cycle(call.before, v)
        /\ call.before[v].allocated_quadrants > 0
        /\ lanes[v].allocated_quadrants = 0
        /\ lanes[v].requested_quadrants = 0
        /\ lanes[v].state = WAITING
        /\ available(lanes) = available(call.before) + call.before[v].allocated_quadrants

C24_LoopsReturnBeforeExit ==
    (pc.ui = "exit" /\ ~ (keep_running /\ simulation_running)) =>
        pc.sim = "done" /\ pc.gen = "done"


\* the text of a numeric option that is not a positive number
invalid_number(optarg) == given(optarg) /\ atoi(optarg) <= 0

\* C25: an invalid value of duration, minimum or maximum inter-arrival
\* seconds, time quantum or initial policy is replaced by the value used when
\* the option is omitted, and startup proceeds instead of rejecting the
\* input; after parsing and validation 10 <= duration <= 3600,
\* 1 <= min_arrival <= max_arrival and quantum >= 1.
C25_InvalidOptionsTakeDefaults ==
    (pc.ui \in { "exit", "args_valid" } /\ call.fn = "main") =>
        /\ call.status = "started"
        /\ invalid_number(call.argv.d) => call.args.duration = DefaultArgs.duration
        /\ (invalid_number(call.argv.a) /\ ~ given(call.argv.A)) =>
              call.args.min_arrival_rate = DefaultArgs.min_arrival_rate
        /\ (invalid_number(call.argv.A) /\ ~ given(call.argv.a)) =>
              call.args.max_arrival_rate = DefaultArgs.max_arrival_rate
        /\ invalid_number(call.argv.q) =>
              call.args.time_quantum = DefaultArgs.time_quantum
        /\ call.argv.g = "fifo" => call.args.algorithm = DefaultArgs.algorithm
        /\ 10 <= call.args.duration /\ call.args.duration <= 3600
        /\ 1 <= call.args.min_arrival_rate
        /\ call.args.min_arrival_rate <= call.args.max_arrival_rate
        /\ call.args.time_quantum >= 1


\* the values time(NULL) can have when a policy is called
PolicyClock == 0 .. (MaxPolicyTime + 1)

lane_cost(i) == lanes[i].queue_length * VEHICLE_CROSS_TIME

\* C27: SRTF selects a lane other than the RUNNING lane only if that lane is
\* READY and its cost (queue_length x VEHICLE_CROSS_TIME) is strictly less
\* than the cost of the RUNNING lane; when every READY lane costs as much as
\* the RUNNING lane or more, SRTF selects no different lane.
C27_SrtfPreemptsOnlyForLowerCost ==
    (call.fn = "srtf" /\ call.status = "returned") =>
        \A r \in Lanes :
            (lanes[r].state = RUNNING /\ call.result \in Lanes \ { r }) =>
                /\ lanes[call.result].state = READY
                /\ lane_cost(call.result) < lane_cost(r)


\* C28: under schedule_next_lane_sjf_with_aging a lane that stays READY with
\* a non-empty queue has a waiting_time that grows while it waits: every
\* decision that leaves it out adds to its waiting_time, which lowers its
\* cost until it is selected.
C28_WaitingTimeGrowsWhilePassedOver ==
    pc.sim = "aging_cycles" =>
        \A i \in Lanes :
            (lanes[i].state = READY /\ lanes[i].queue_length > 0) =>
                lanes[i].waiting_time >= call.passed[i]


\* the positions of the simulation thread inside execute_lane_time_slice
SliceLabels ==
    { "s_slice_lock1", "s_slice_lock2", "s_slice_unlock2", "s_slice_unlock1",
      "s_slice_cross", "s_slice_relock2", "s_slice_record", "s_slice_end2",
      "s_slice_end1" }

C30_SliceRunsOnTheRunningLane ==
    /\ pc.sim = "s_slice_lock1" =>
          /\ lanes[sim.lane].state = RUNNING
          /\ scheduler.current_lane = sim.lane
    /\ (pc.sim = "s_slice_unlock2" /\ sim.vehicle_id # -1) =>
          lanes[sim.lane].state = RUNNING


\* neither an arrival (add and wake-up) nor a time slice is under way
no_step_under_way ==
    /\ pc.gen \in { "g_loop", "done" }
    /\ pc.sim \notin SliceLabels

\* C31: in every state in which no arrival and no time slice is under way, a
\* lane in state READY has a non-empty queue (queue_length > 0).
C31_ReadyLaneHasVehicles ==
    (pc.ui \in { "m_loop", "m_input" } /\ no_step_under_way) =>
        \A i \in Lanes : lanes[i].state = READY => lanes[i].queue_length > 0


\* C32: under SJF, with the simulation running unpaused and the simulation
\* thread scheduled fairly, every vehicle enqueued on a lane is eventually
\* dequeued by a time slice, also when no further vehicle arrives: no lane
\* keeps a non-empty queue forever.
C32_EveryVehicleIsServed ==
    \A i \in Lanes :
        (pc.sim = "service_cycles" /\ lanes[i].queue_length > 0)
            ~> (lanes[i].queue_length = 0)


NoLock == [ name |-> "none", lane |-> -1 ]

a_lock(name, i) == [ name |-> name, lane |-> IF name = "queue_lock" THEN i ELSE -1 ]

\* the lock thread t is about to take with a blocking pthread_mutex_lock
wanted_lock(t) ==
    IF ~ alive THEN NoLock
    ELSE IF t = "sim" THEN
        CASE pc.sim = "s_update" -> a_lock("global_state_lock", -1)
          [] pc.sim = "s_schedule" -> a_lock("scheduler_lock", -1)
          [] pc.sim = "s_snapshot" -> a_lock("queue_lock", sim.i)
          [] pc.sim = "s_switch_from" /\ sim.from_lane >= 0 ->
                a_lock("queue_lock", sim.from_lane)
          [] pc.sim = "s_switch_to" -> a_lock("queue_lock", sim.next_lane)
          [] pc.sim \in { "s_slice_lock1", "s_slice_cross" } ->
                a_lock(time_slice_lock_order[1], sim.lane)
          [] pc.sim \in { "s_slice_lock2", "s_slice_relock2" } ->
                a_lock(time_slice_lock_order[2], sim.lane)
          [] OTHER -> NoLock
    ELSE IF t = "gen" THEN
        CASE pc.gen = "g_count" -> a_lock("global_state_lock", -1)
          [] pc.gen \in { "g_add", "g_wake" } -> a_lock("queue_lock", gen.lane_idx)
          [] OTHER -> NoLock
    ELSE
        CASE pc.ui = "m_set_lane" -> a_lock("queue_lock", ui.i)
          [] pc.ui = "m_stop_scheduler" -> a_lock("scheduler_lock", -1)
          [] OTHER -> NoLock

\* the thread that holds lock l, FREE if none does
lock_holder(l) ==
    CASE l.name = "scheduler_lock" -> scheduler_lock
      [] l.name = "global_state_lock" -> global_state_lock
      [] l.name = "queue_lock" -> queue_lock[l.lane]
      [] OTHER -> FREE

\* thread t cannot go on before thread u gives back a lock
thread_waits_for(t, u) ==
    /\ wanted_lock(t) # NoLock
    /\ lock_holder(wanted_lock(t)) = u

\* from t a chain of at most steps waiting threads leads to u
RECURSIVE wait_chain(_, _, _)
wait_chain(t, u, steps) ==
    /\ steps > 0
    /\ \/ thread_waits_for(t, u)
       \/ \E v \in Threads : thread_waits_for(t, v) /\ wait_chain(v, u, steps - 1)

\* C33: the simulation thread, the generator thread and the main thread never
\* reach a circular wait on scheduler_lock, global_state_lock and the lane
\* queue_locks: a thread that waits for a lock waits for a thread that has
\* not ended and is not, directly or through others, waiting for it.
C33_NoCircularWait ==
    \A t \in Threads :
        /\ ~ wait_chain(t, t, Cardinality(Threads))
        /\ \A u \in Threads :
              thread_waits_for(t, u) => pc[u] \notin { "done", "exit" }

\* the generator and the main thread both wait for locks the simulation
\* thread holds in its time slice
C33_Witness ==
    /\ thread_waits_for("gen", "sim")
    /\ thread_waits_for("ui", "sim")
    /\ wanted_lock("gen") # wanted_lock("ui")


\* C34: every policy function returns for every lane configuration and
\* leaves every lane queue_lock released: no policy, while it holds a lane's
\* queue_lock for the snapshot, calls an accessor that locks it again.
C34_PoliciesReturnWithLocksReleased ==
    pc.sim # "policy" =>
        /\ call.status = "returned"
        /\ \A i \in Lanes : queue_lock[i] = FREE


\* C35: every iteration of the lane loop completes and releases the lane's
\* queue_lock, also when a vehicle arrives or the RUNNING lane serves a
\* batch: the loop never calls a function that locks queue_lock while it
\* holds queue_lock.
C35_LaneLoopIterationCompletes ==
    /\ call.status # "deadlocked"
    /\ pc.sim = "loop_lock" => queue_lock[call.lane] = FREE


\* the main thread is inside a set_scheduling_algorithm that has taken
\* scheduler_lock
SetLabels == { "m_set_check", "m_set_lane", "m_set_unlock" }

\* the main thread takes a step
ui_steps == pc'.ui # pc.ui \/ ui' # ui

C37_ValidationCountsEveryRunningLane ==
    (call.fn = "validate_single_lane_running" /\ call.status = "returned") =>
        (call.result <=> Cardinality(running_lanes) <= 1)


RECURSIVE sum_over(_, _)
\* the sum of f[i] over the lanes i in S
sum_over(f, S) ==
    IF S = {} THEN 0
    ELSE LET i == CHOOSE j \in S : TRUE
         IN  f[i] + sum_over(f, S \ { i })

queued_vehicles == sum_over([ i \in Lanes |-> lanes[i].queue_length ], Lanes)

\* C38: no generated vehicle is lost or counted twice: whenever no arrival
\* and no time slice is under way, total_vehicles_generated equals
\* metrics.total_vehicles_processed plus the queue lengths of the four lanes,
\* and metrics.total_vehicles_processed equals the sum of
\* metrics.lane_throughput.
C38_VehiclesAreConserved ==
    no_step_under_way =>
        /\ total_vehicles_generated = metrics.total_vehicles_processed + queued_vehicles
        /\ metrics.total_vehicles_processed = sum_over(metrics.lane_throughput, Lanes)


\* C39: opening and then closing the help screen restores the pause state
\* that held before it was opened; while help is shown the simulation is
\* paused, and no key read in the meantime changes the pause state, the
\* policy or keep_running.
C39_HelpRestoresPauseState ==
    [][ call.fn = "handle_user_input" =>
          /\ call'.show_help => simulation_paused'
          /\ (call.show_help /\ ~ call'.show_help) =>
                simulation_paused' = call.paused_at_open
          /\ (call.show_help /\ call'.show_help) =>
                simulation_paused' = simulation_paused
          /\ call.show_help =>
                /\ scheduler' = scheduler
                /\ keep_running' = keep_running
                /\ lanes' = lanes ]_vars

\* help was opened on a running simulation and has been closed with 'q'
C39_Witness ==
    /\ call.fn = "handle_user_input" /\ call.count >= 2
    /\ ~ call.show_help /\ call.ch = "q"
    /\ ~ call.paused_at_open
    /\ ~ simulation_paused /\ keep_running
=============================================================================
